---- MODULE Spec2Model ----
(***************************************************************************)
(* Authentication / session / lockout core of the knowledge-base API       *)
(* (apps/api/src/routes/auth.ts and apps/api/src/lib/auth.ts).             *)
(*                                                                         *)
(* The persistent store is the variables users, sessions, resetTokens and  *)
(* verificationTokens.  A request handler is a sequence of steps, one per  *)
(* awaited store operation; the synchronous code that follows an await     *)
(* belongs to the same step.  req[r] is the position and the local         *)
(* variables of the handler running in slot r, and, once it has answered,  *)
(* its response.  Time is counted in minutes.                              *)
(***************************************************************************)
EXTENDS Integers, FiniteSets, Sequences, TLC

VARIABLES
  now,                 \* the server clock (new Date()), minutes
  ticks,               \* how many times the clock has advanced
  conc,                \* how many requests the server is handling at once, at most
  users,               \* email -> User row (email is unique, it stands for the id)
  sessions,            \* set of Session rows
  resetTokens,         \* set of PasswordResetToken rows
  verificationTokens,  \* set of EmailVerificationToken rows
  nextId,              \* source of fresh ids and random tokens
  accessTokens,        \* access tokens handed to clients so far
  retired,             \* refresh tokens that a session once held and lost
  req,                 \* slot -> request in flight or answered
  articles,            \* set of Article rows
  client               \* the web client: its localStorage, its state, its calls

vars == <<now, ticks, conc, users, sessions, resetTokens, verificationTokens,
          nextId, accessTokens, retired, req, articles, client>>

-----------------------------------------------------------------------------
(* Bounds of the model *)

MaxReq == 2
MaxId == 2
MaxTicks == 1

Slots == 1..MaxReq
Emails == {"a@x.com", "b@x.com"}
Passwords == {"Passw0rd!", "0therPass"}

-----------------------------------------------------------------------------
(* lib/auth.ts *)

JWT_SECRET == "dev-secret-change-in-production"
ACCESS_TOKEN_EXPIRES_IN == 15
REFRESH_TOKEN_EXPIRES_DAYS == 7
PASSWORD_RESET_EXPIRES_HOURS == 1
EMAIL_VERIFICATION_EXPIRES_HOURS == 24
MAX_LOGIN_ATTEMPTS == 5
LOCKOUT_DURATION_MINUTES == 15

\* a null Date column (lockedUntil, emailVerified)
NullDate == -1

\* bcrypt.hash(password, 12): the salt is left out, the digest stands for the
\* password it was made from and for nothing else
hashPassword(password) == [alg |-> "bcrypt", cost |-> 12, digest |-> <<password>>]

\* bcrypt.compare(password, hash)
verifyPassword(password, hash) == hash.digest = <<password>>

\* a token that says VIEWER whatever the role of the payload
generateAccessTokenViewer(payload, t) ==
  [payload |-> [payload EXCEPT !.role = "VIEWER"],
   exp |-> t + ACCESS_TOKEN_EXPIRES_IN, sig |-> JWT_SECRET]

\* jwt.sign(payload, JWT_SECRET, {expiresIn: '15m'}) at time t
generateAccessToken(payload, t) ==
  [payload |-> payload, exp |-> t + ACCESS_TOKEN_EXPIRES_IN, sig |-> JWT_SECRET]

NoPayload == [null |-> TRUE]

\* jwt.verify(token, JWT_SECRET) at time t: null on a bad signature or an
\* expired token (jsonwebtoken rejects when the clock has reached exp)
verifyAccessToken(token, t) ==
  IF token.sig = JWT_SECRET /\ t < token.exp THEN token.payload ELSE NoPayload

getRefreshTokenExpiry(t) == t + REFRESH_TOKEN_EXPIRES_DAYS * 24 * 60

getPasswordResetExpiry(t) == t + PASSWORD_RESET_EXPIRES_HOURS * 60

getEmailVerificationExpiry(t) == t + EMAIL_VERIFICATION_EXPIRES_HOURS * 60

\* a lock that still holds at the instant lockedUntil
isAccountLockedInclusive(lockedUntil, t) ==
  IF lockedUntil = NullDate THEN FALSE ELSE t <= lockedUntil

isAccountLocked(lockedUntil, t) ==
  IF lockedUntil = NullDate THEN FALSE ELSE t < lockedUntil

getLockoutExpiry(t) == t + LOCKOUT_DURATION_MINUTES

-----------------------------------------------------------------------------
(* The store *)

\* prisma.user.create({data: {email, passwordHash, name, role: 'VIEWER'}}):
\* the other columns take the defaults of the User table
UserDefaults ==
  [failedLoginAttempts |-> 0, lockedUntil |-> NullDate, emailVerified |-> NullDate]

\* a registration that creates an editor
NewUserEditor(passwordHash) ==
  [passwordHash |-> passwordHash, role |-> "EDITOR"] @@ UserDefaults

NewUser(passwordHash) ==
  [passwordHash |-> passwordHash, role |-> "VIEWER"] @@ UserDefaults

\* prisma.<model>.update({data}): the columns data names are written, the
\* others are left as they are
ApplyUpdate(row, data) ==
  [f \in DOMAIN row |-> IF f \in DOMAIN data THEN data[f] ELSE row[f]]

NewSession(id, userId, refreshToken, expiresAt) ==
  [id |-> id, userId |-> userId, refreshToken |-> refreshToken, expiresAt |-> expiresAt]

SessionTokens(S) == {s.refreshToken : s \in S}

\* the refresh tokens a change of the session table takes out of use
Retire(S, T) == retired \cup (SessionTokens(S) \ SessionTokens(T))

-----------------------------------------------------------------------------
(* Responses *)

ErrorBody(code, message) == [code |-> code, message |-> message]

ErrorResponse(status, code, message) ==
  [status |-> status, success |-> FALSE, error |-> ErrorBody(code, message)]

\* middleware/error.ts errorHandler, reached through next(error)
InternalError == ErrorResponse(500, "INTERNAL_ERROR", <<"An unexpected error occurred">>)

SuccessResponse(status, data) == [status |-> status, success |-> TRUE, data |-> data]

-----------------------------------------------------------------------------
(* Request slots *)

Idle == [op |-> "none", pc |-> "idle"]

InFlight(r) == req[r].pc \notin {"idle", "done"}

At(r, op, pc) == req[r].op = op /\ req[r].pc = pc

\* a handler can be entered in slot r: the server takes a new request while it
\* handles fewer than conc, and the request gets the first slot not in flight
CanStart(r) ==
  /\ ~InFlight(r)
  /\ \A q \in Slots : q < r => InFlight(q)
  /\ Cardinality({q \in Slots : InFlight(q)}) < conc

Begin(r, op, pc, in) ==
  req' = [req EXCEPT ![r] = [op |-> op, pc |-> pc, in |-> in]]

Goto(r, pc, loc) ==
  req' = [req EXCEPT ![r] = [op |-> req[r].op, pc |-> pc, in |-> req[r].in, loc |-> loc]]

Respond(r, resp) ==
  req' = [req EXCEPT ![r] = [op |-> req[r].op, pc |-> "done", in |-> req[r].in, resp |-> resp]]

\* a handler that answers before its first await
Finish(r, op, in, resp) ==
  req' = [req EXCEPT ![r] = [op |-> op, pc |-> "done", in |-> in, resp |-> resp]]

Answered(r, op) == At(r, op, "done")

Code(r) == IF req[r].resp.success THEN "OK" ELSE req[r].resp.error.code

-----------------------------------------------------------------------------
(* POST /api/auth/register *)

RegisterStart(r) ==
  \E email \in Emails, password \in Passwords :
    /\ CanStart(r)
    /\ Begin(r, "register", "findUser", [email |-> email, password |-> password])
    /\ UNCHANGED <<now, ticks, conc, articles, client, users, sessions, resetTokens, verificationTokens,
                   nextId, accessTokens, retired>>

\* findUnique({where: {email}}), the EMAIL_EXISTS answer, hashPassword
RegisterFindUser(r) ==
  /\ At(r, "register", "findUser")
  /\ IF req[r].in.email \in DOMAIN users
       THEN Respond(r, ErrorResponse(400, "EMAIL_EXISTS", <<"Email already registered">>))
       ELSE Goto(r, "createUser", [passwordHash |-> hashPassword(req[r].in.password)])
  /\ UNCHANGED <<now, ticks, conc, articles, client, users, sessions, resetTokens, verificationTokens,
                 nextId, accessTokens, retired>>

\* prisma.user.create, which the unique index on email can refuse;
\* generateRefreshToken and getRefreshTokenExpiry for the session to come
RegisterCreateUser(r) ==
  /\ At(r, "register", "createUser")
  /\ IF req[r].in.email \in DOMAIN users
       THEN /\ Respond(r, InternalError)
            /\ UNCHANGED <<users, nextId>>
       ELSE /\ nextId <= MaxId
            /\ users' = users @@ (req[r].in.email :> NewUser(req[r].loc.passwordHash))
            /\ nextId' = nextId + 1
            /\ Goto(r, "createSession",
                    [user |-> [id |-> req[r].in.email, role |-> "VIEWER"],
                     refreshToken |-> nextId,
                     expiresAt |-> getRefreshTokenExpiry(now)])
  /\ UNCHANGED <<now, ticks, conc, articles, client, sessions, resetTokens, verificationTokens,
                 accessTokens, retired>>

\* prisma.session.create; generateSecureToken and getEmailVerificationExpiry
RegisterCreateSession(r) ==
  /\ At(r, "register", "createSession")
  /\ nextId <= MaxId
  /\ sessions' = sessions \cup
       {NewSession(req[r].loc.refreshToken, req[r].loc.user.id,
                   req[r].loc.refreshToken, req[r].loc.expiresAt)}
  /\ nextId' = nextId + 1
  /\ Goto(r, "createVerificationToken",
          [user |-> req[r].loc.user, refreshToken |-> req[r].loc.refreshToken,
           verificationToken |-> nextId,
           expiresAt |-> getEmailVerificationExpiry(now)])
  /\ UNCHANGED <<now, ticks, conc, articles, client, users, resetTokens, verificationTokens,
                 accessTokens, retired>>

\* prisma.emailVerificationToken.create, generateAccessToken, the 201 answer
RegisterCreateVerificationToken(r) ==
  /\ At(r, "register", "createVerificationToken")
  /\ verificationTokens' = verificationTokens \cup
       {[token |-> req[r].loc.verificationToken, userId |-> req[r].loc.user.id,
         expiresAt |-> req[r].loc.expiresAt, used |-> FALSE]}
  /\ LET accessToken ==
           generateAccessToken([userId |-> req[r].loc.user.id,
                                role |-> req[r].loc.user.role], now)
     IN /\ accessTokens' = accessTokens \cup {accessToken}
        /\ Respond(r, SuccessResponse(201,
             [user |-> req[r].loc.user, accessToken |-> accessToken,
              refreshToken |-> req[r].loc.refreshToken]))
  /\ UNCHANGED <<now, ticks, conc, articles, client, users, sessions, resetTokens, nextId, retired>>

-----------------------------------------------------------------------------
(* POST /api/auth/login *)

\* a login of one of the emails E with one of the passwords P
LoginStartAs(r, E, P) ==
  \E email \in E, password \in P :
    /\ CanStart(r)
    /\ Begin(r, "login", "findUser", [email |-> email, password |-> password])
    /\ UNCHANGED <<now, ticks, conc, articles, client, users, sessions, resetTokens, verificationTokens,
                   nextId, accessTokens, retired>>

LoginStart(r) == LoginStartAs(r, Emails, Passwords)

\* the answer to an unknown email
UnknownEmailResponse ==
  ErrorResponse(401, "INVALID_CREDENTIALS", <<"Invalid email or password">>)

\* an answer whose remainingAttempts is not floored at 0
WrongPasswordResponseNoFloor(failedAttempts) ==
  [status |-> 401, success |-> FALSE,
   error |-> [code |-> "INVALID_CREDENTIALS",
              message |-> <<"Invalid email or password">>,
              remainingAttempts |-> MAX_LOGIN_ATTEMPTS - failedAttempts]]

\* the answer to a wrong password
WrongPasswordResponse(failedAttempts) ==
  [status |-> 401, success |-> FALSE,
   error |-> [code |-> "INVALID_CREDENTIALS",
              message |-> <<"Invalid email or password">>,
              remainingAttempts |->
                IF MAX_LOGIN_ATTEMPTS - failedAttempts > 0
                  THEN MAX_LOGIN_ATTEMPTS - failedAttempts ELSE 0]]

AccountLockedResponse(lockedUntil) ==
  ErrorResponse(423, "ACCOUNT_LOCKED",
                <<"Account is locked. Try again after ", lockedUntil>>)

\* findUnique({where: {email}}), the unknown-email answer, the lock check
LoginFindUser(r) ==
  /\ At(r, "login", "findUser")
  /\ IF req[r].in.email \notin DOMAIN users
       THEN Respond(r, UnknownEmailResponse)
       ELSE LET user == users[req[r].in.email]
            IN IF isAccountLocked(user.lockedUntil, now)
                 THEN Respond(r, AccountLockedResponse(user.lockedUntil))
                 ELSE Goto(r, "verifyPassword", [user |-> user])
  /\ UNCHANGED <<now, ticks, conc, articles, client, users, sessions, resetTokens, verificationTokens,
                 nextId, accessTokens, retired>>

\* a count that starts again at 1 once the lock of the row has expired
FailedUpdateDataFreshCount(user, t) ==
  LET failedAttempts ==
        IF user.lockedUntil # NullDate /\ ~(t < user.lockedUntil)
          THEN 1 ELSE user.failedLoginAttempts + 1
  IN IF failedAttempts >= MAX_LOGIN_ATTEMPTS
       THEN [failedLoginAttempts |-> failedAttempts, lockedUntil |-> getLockoutExpiry(t)]
       ELSE [failedLoginAttempts |-> failedAttempts]

\* a lock that comes one failure late
FailedUpdateDataLate(user, t) ==
  LET failedAttempts == user.failedLoginAttempts + 1
  IN IF failedAttempts > MAX_LOGIN_ATTEMPTS
       THEN [failedLoginAttempts |-> failedAttempts, lockedUntil |-> getLockoutExpiry(t)]
       ELSE [failedLoginAttempts |-> failedAttempts]

\* the data of the update after a wrong password, from the row as it was read
FailedUpdateData(user, t) ==
  LET failedAttempts == user.failedLoginAttempts + 1
  IN IF failedAttempts >= MAX_LOGIN_ATTEMPTS
       THEN [failedLoginAttempts |-> failedAttempts, lockedUntil |-> getLockoutExpiry(t)]
       ELSE [failedLoginAttempts |-> failedAttempts]

\* verifyPassword against the row as it was read
LoginVerifyPassword(r) ==
  /\ At(r, "login", "verifyPassword")
  /\ IF verifyPassword(req[r].in.password, req[r].loc.user.passwordHash)
       THEN Goto(r, "resetAttempts", req[r].loc)
       ELSE Goto(r, "updateFailed",
                 [user |-> req[r].loc.user,
                  updateData |-> FailedUpdateData(req[r].loc.user, now)])
  /\ UNCHANGED <<now, ticks, conc, articles, client, users, sessions, resetTokens, verificationTokens,
                 nextId, accessTokens, retired>>

\* prisma.user.update with the failed-attempt data, the 401 answer
LoginUpdateFailed(r) ==
  /\ At(r, "login", "updateFailed")
  /\ users' = [users EXCEPT ![req[r].in.email] = ApplyUpdate(@, req[r].loc.updateData)]
  /\ Respond(r, WrongPasswordResponse(req[r].loc.updateData.failedLoginAttempts))
  /\ UNCHANGED <<now, ticks, conc, articles, client, sessions, resetTokens, verificationTokens,
                 nextId, accessTokens, retired>>

\* a successful login that clears the lock and keeps the counter
ResetAttemptsDataKeepsCounter == [lockedUntil |-> NullDate]

\* the data of the update after a right password
ResetAttemptsData == [failedLoginAttempts |-> 0, lockedUntil |-> NullDate]

\* prisma.user.update resetting the counter; generateRefreshToken and
\* getRefreshTokenExpiry for the session to come
LoginResetAttempts(r) ==
  /\ At(r, "login", "resetAttempts")
  /\ nextId <= MaxId
  /\ users' = [users EXCEPT ![req[r].in.email] = ApplyUpdate(@, ResetAttemptsData)]
  /\ nextId' = nextId + 1
  /\ Goto(r, "createSession",
          [user |-> req[r].loc.user, refreshToken |-> nextId,
           expiresAt |-> getRefreshTokenExpiry(now)])
  /\ UNCHANGED <<now, ticks, conc, articles, client, sessions, resetTokens, verificationTokens,
                 accessTokens, retired>>

\* prisma.session.create, generateAccessToken, the 200 answer
LoginCreateSession(r) ==
  /\ At(r, "login", "createSession")
  /\ sessions' = sessions \cup
       {NewSession(req[r].loc.refreshToken, req[r].in.email,
                   req[r].loc.refreshToken, req[r].loc.expiresAt)}
  /\ LET accessToken ==
           generateAccessToken([userId |-> req[r].in.email,
                                role |-> req[r].loc.user.role], now)
     IN /\ accessTokens' = accessTokens \cup {accessToken}
        /\ Respond(r, SuccessResponse(200,
             [user |-> [id |-> req[r].in.email, role |-> req[r].loc.user.role,
                        emailVerified |-> req[r].loc.user.emailVerified],
              accessToken |-> accessToken,
              refreshToken |-> req[r].loc.refreshToken]))
  /\ UNCHANGED <<now, ticks, conc, articles, client, users, resetTokens, verificationTokens,
                 nextId, retired>>

-----------------------------------------------------------------------------
(* middleware/auth.ts requireAuth: the bearer token is verified and its      *)
(* payload becomes req.user, or the request is answered 401                  *)

Unauthorized == ErrorResponse(401, "UNAUTHORIZED", <<"Authentication required">>)

\* a token signed with another secret
ForgedToken ==
  [payload |-> [userId |-> "a@x.com", role |-> "ADMIN"],
   exp |-> now + ACCESS_TOKEN_EXPIRES_IN, sig |-> "forged"]

\* what a client can put in the Authorization header
BearerTokens == accessTokens \cup {ForgedToken}

requireAuth(token, t) == verifyAccessToken(token, t)

\* the values req.user can take at time t, NoPayload for a request that is
\* answered 401
Callers(t) == {requireAuth(b, t) : b \in BearerTokens}

\* the refresh tokens a client can present: one in use, one no longer in use,
\* one that was never issued
NeverIssued == 0

RefreshTokenInputs == SessionTokens(sessions) \cup retired \cup {NeverIssued}

-----------------------------------------------------------------------------
(* POST /api/auth/refresh *)

RefreshStart(r) ==
  \E refreshToken \in RefreshTokenInputs :
    /\ CanStart(r)
    /\ Begin(r, "refresh", "findSession", [refreshToken |-> refreshToken])
    /\ UNCHANGED <<now, ticks, conc, articles, client, users, sessions, resetTokens, verificationTokens,
                   nextId, accessTokens, retired>>

\* prisma.session.findUnique({where: {refreshToken}, include: {user: true}})
FindSession(refreshToken) == {s \in sessions : s.refreshToken = refreshToken}

\* findUnique, the INVALID_REFRESH_TOKEN answer, the expiry check,
\* generateRefreshToken, generateAccessToken, getRefreshTokenExpiry
RefreshFindSession(r) ==
  /\ At(r, "refresh", "findSession")
  /\ IF FindSession(req[r].in.refreshToken) = {}
       THEN /\ Respond(r, ErrorResponse(401, "INVALID_REFRESH_TOKEN",
                                        <<"Invalid refresh token">>))
            /\ UNCHANGED nextId
       ELSE LET session == CHOOSE s \in FindSession(req[r].in.refreshToken) : TRUE
            IN IF session.expiresAt < now
                 THEN /\ Goto(r, "deleteExpired", [session |-> session])
                      /\ UNCHANGED nextId
                 ELSE /\ nextId <= MaxId
                      /\ nextId' = nextId + 1
                      /\ Goto(r, "updateSession",
                              [session |-> session,
                               newRefreshToken |-> nextId,
                               accessToken |->
                                 generateAccessToken(
                                   [userId |-> session.userId,
                                    role |-> users[session.userId].role], now),
                               expiresAt |-> getRefreshTokenExpiry(now)])
  /\ UNCHANGED <<now, ticks, conc, articles, client, users, sessions, resetTokens, verificationTokens,
                 accessTokens, retired>>

SessionById(id) == {s \in sessions : s.id = id}

\* prisma.session.delete({where: {id}}) of the expired session, which throws
\* when the row is gone; the REFRESH_TOKEN_EXPIRED answer
RefreshDeleteExpired(r) ==
  /\ At(r, "refresh", "deleteExpired")
  /\ IF SessionById(req[r].loc.session.id) = {}
       THEN /\ Respond(r, InternalError)
            /\ UNCHANGED <<sessions, retired>>
       ELSE /\ sessions' = sessions \ SessionById(req[r].loc.session.id)
            /\ retired' = Retire(sessions, sessions')
            /\ Respond(r, ErrorResponse(401, "REFRESH_TOKEN_EXPIRED",
                                        <<"Refresh token has expired">>))
  /\ UNCHANGED <<now, ticks, conc, articles, client, users, resetTokens, verificationTokens,
                 nextId, accessTokens>>

\* an update that extends the expiry and leaves the old token in place
UpdateSessionKeepsToken(id, data) ==
  {IF s.id = id THEN [s EXCEPT !.expiresAt = data.expiresAt] ELSE s : s \in sessions}

\* the session table after prisma.session.update({where: {id}, data})
UpdateSession(id, data) ==
  {IF s.id = id THEN ApplyUpdate(s, data) ELSE s : s \in sessions}

\* prisma.session.update({where: {id}, data: {refreshToken, expiresAt}}),
\* which throws when the row is gone; the 200 answer
RefreshUpdateSession(r) ==
  /\ At(r, "refresh", "updateSession")
  /\ IF SessionById(req[r].loc.session.id) = {}
       THEN /\ Respond(r, InternalError)
            /\ UNCHANGED <<sessions, retired, accessTokens>>
       ELSE /\ sessions' = UpdateSession(req[r].loc.session.id,
                             [refreshToken |-> req[r].loc.newRefreshToken,
                              expiresAt |-> req[r].loc.expiresAt])
            /\ retired' = Retire(sessions, sessions')
            /\ accessTokens' = accessTokens \cup {req[r].loc.accessToken}
            /\ Respond(r, SuccessResponse(200,
                 [accessToken |-> req[r].loc.accessToken,
                  refreshToken |-> req[r].loc.newRefreshToken]))
  /\ UNCHANGED <<now, ticks, conc, articles, client, users, resetTokens, verificationTokens, nextId>>

-----------------------------------------------------------------------------
(* POST /api/auth/logout and POST /api/auth/logout-all *)

\* a body without refreshToken
NoRefreshToken == -1

LoggedOut == SuccessResponse(200, [message |-> <<"Logged out successfully">>])

\* requireAuth, then the handler up to its deleteMany
LogoutStart(r) ==
  \E user \in Callers(now), refreshToken \in RefreshTokenInputs \cup {NoRefreshToken} :
    LET in == [user |-> user, refreshToken |-> refreshToken]
    IN /\ CanStart(r)
       /\ IF user = NoPayload
            THEN Finish(r, "logout", in, Unauthorized)
            ELSE IF refreshToken = NoRefreshToken
                   THEN Finish(r, "logout", in, LoggedOut)
                   ELSE Begin(r, "logout", "deleteSession", in)
       /\ UNCHANGED <<now, ticks, conc, articles, client, users, sessions, resetTokens, verificationTokens,
                      nextId, accessTokens, retired>>

\* a deleteMany that matches the refresh token and not the caller
LogoutDeletesByTokenOnly(r) ==
  /\ At(r, "logout", "deleteSession")
  /\ sessions' = {s \in sessions : s.refreshToken # req[r].in.refreshToken}
  /\ retired' = Retire(sessions, sessions')
  /\ Respond(r, LoggedOut)
  /\ UNCHANGED <<now, ticks, conc, articles, client, users, resetTokens, verificationTokens,
                 nextId, accessTokens>>

\* prisma.session.deleteMany({where: {userId: req.user.userId, refreshToken}})
LogoutDeleteSession(r) ==
  /\ At(r, "logout", "deleteSession")
  /\ sessions' = {s \in sessions :
                    ~(s.userId = req[r].in.user.userId
                      /\ s.refreshToken = req[r].in.refreshToken)}
  /\ retired' = Retire(sessions, sessions')
  /\ Respond(r, LoggedOut)
  /\ UNCHANGED <<now, ticks, conc, articles, client, users, resetTokens, verificationTokens,
                 nextId, accessTokens>>

LogoutAllStart(r) ==
  \E user \in Callers(now) :
    /\ CanStart(r)
    /\ IF user = NoPayload
         THEN Finish(r, "logoutAll", [user |-> user], Unauthorized)
         ELSE Begin(r, "logoutAll", "deleteSessions", [user |-> user])
    /\ UNCHANGED <<now, ticks, conc, articles, client, users, sessions, resetTokens, verificationTokens,
                   nextId, accessTokens, retired>>

\* a deleteMany without its where clause
LogoutAllDeletesEverySession(r) ==
  /\ At(r, "logoutAll", "deleteSessions")
  /\ sessions' = {}
  /\ retired' = Retire(sessions, sessions')
  /\ Respond(r, SuccessResponse(200, [message |-> <<"Logged out from all devices">>]))
  /\ UNCHANGED <<now, ticks, conc, articles, client, users, resetTokens, verificationTokens,
                 nextId, accessTokens>>

\* prisma.session.deleteMany({where: {userId: req.user.userId}})
LogoutAllDeleteSessions(r) ==
  /\ At(r, "logoutAll", "deleteSessions")
  /\ sessions' = {s \in sessions : s.userId # req[r].in.user.userId}
  /\ retired' = Retire(sessions, sessions')
  /\ Respond(r, SuccessResponse(200, [message |-> <<"Logged out from all devices">>]))
  /\ UNCHANGED <<now, ticks, conc, articles, client, users, resetTokens, verificationTokens,
                 nextId, accessTokens>>

-----------------------------------------------------------------------------
(* DELETE /api/auth/sessions/:id *)

\* the ids a client can put in the path: one of a session, or one of none
SessionIdInputs == {s.id : s \in sessions} \cup {NeverIssued}

SessionNotFound == ErrorResponse(404, "SESSION_NOT_FOUND", <<"Session not found">>)

\* requireAuth, then the handler up to its findFirst
DeleteSessionStart(r) ==
  \E user \in Callers(now), id \in SessionIdInputs :
    LET in == [user |-> user, id |-> id]
    IN /\ CanStart(r)
       /\ IF user = NoPayload
            THEN Finish(r, "revokeSession", in, Unauthorized)
            ELSE Begin(r, "revokeSession", "findSession", in)
       /\ UNCHANGED <<now, ticks, conc, articles, client, users, sessions, resetTokens, verificationTokens,
                      nextId, accessTokens, retired>>

\* prisma.session.findFirst({where: {id, userId: req.user.userId}})
FindOwnSession(id, userId) == {s \in sessions : s.id = id /\ s.userId = userId}

\* a lookup of the session by its id alone
DeleteSessionFindAnyOwner(r) ==
  /\ At(r, "revokeSession", "findSession")
  /\ IF SessionById(req[r].in.id) = {}
       THEN Respond(r, SessionNotFound)
       ELSE Goto(r, "delete", [session |-> CHOOSE x \in SessionById(req[r].in.id) : TRUE])
  /\ UNCHANGED <<now, ticks, conc, articles, client, users, sessions, resetTokens, verificationTokens,
                 nextId, accessTokens, retired>>

\* findFirst and the SESSION_NOT_FOUND answer
DeleteSessionFind(r) ==
  /\ At(r, "revokeSession", "findSession")
  /\ LET found == FindOwnSession(req[r].in.id, req[r].in.user.userId)
     IN IF found = {}
          THEN Respond(r, SessionNotFound)
          ELSE Goto(r, "delete", [session |-> CHOOSE x \in found : TRUE])
  /\ UNCHANGED <<now, ticks, conc, articles, client, users, sessions, resetTokens, verificationTokens,
                 nextId, accessTokens, retired>>

\* prisma.session.delete({where: {id}}), which throws when the row is gone;
\* the 200 answer
DeleteSessionDelete(r) ==
  /\ At(r, "revokeSession", "delete")
  /\ IF SessionById(req[r].in.id) = {}
       THEN /\ Respond(r, InternalError)
            /\ UNCHANGED <<sessions, retired>>
       ELSE /\ sessions' = sessions \ SessionById(req[r].in.id)
            /\ retired' = Retire(sessions, sessions')
            /\ Respond(r, SuccessResponse(200,
                 [message |-> <<"Session revoked successfully">>]))
  /\ UNCHANGED <<now, ticks, conc, articles, client, users, resetTokens, verificationTokens,
                 nextId, accessTokens>>

DeleteSession(r) ==
  \/ DeleteSessionStart(r)
  \/ DeleteSessionFind(r)
  \/ DeleteSessionDelete(r)

-----------------------------------------------------------------------------
(* Single-use tokens: POST /api/auth/verify-email, forgot-password,          *)
(* reset-password                                                            *)

\* the tokens a client can present: any that was issued, or one that was not
SecureTokenInputs(table) == {t.token : t \in table} \cup {NeverIssued}

FindToken(table, token) == {t \in table : t.token = token}

\* prisma.<token>.update({where: {id}, data: {used: true}})
MarkUsed(table, token) ==
  {IF t.token = token THEN ApplyUpdate(t, [used |-> TRUE]) ELSE t : t \in table}

\* the checks with the expiry looked at before the used flag
TokenCheckExpiryFirst(found, t) ==
  IF found = {} THEN "INVALID_TOKEN"
  ELSE LET row == CHOOSE x \in found : TRUE
       IN IF row.expiresAt < t THEN "TOKEN_EXPIRED"
          ELSE IF row.used THEN "TOKEN_USED"
          ELSE ""

\* the checks with a token still taken in the minute after its expiry
TokenCheckExpiryLate(found, t) ==
  IF found = {} THEN "INVALID_TOKEN"
  ELSE LET row == CHOOSE x \in found : TRUE
       IN IF row.used THEN "TOKEN_USED"
          ELSE IF row.expiresAt + 1 < t THEN "TOKEN_EXPIRED"
          ELSE ""

\* the answers of the checks that precede the use of a token; "" when it passes
TokenCheck(found, t) ==
  IF found = {} THEN "INVALID_TOKEN"
  ELSE LET row == CHOOSE x \in found : TRUE
       IN IF row.used THEN "TOKEN_USED"
          ELSE IF row.expiresAt < t THEN "TOKEN_EXPIRED"
          ELSE ""

VerifyEmailStart(r) ==
  \E token \in SecureTokenInputs(verificationTokens) :
    /\ CanStart(r)
    /\ Begin(r, "verifyEmail", "findToken", [token |-> token])
    /\ UNCHANGED <<now, ticks, conc, articles, client, users, sessions, resetTokens, verificationTokens,
                   nextId, accessTokens, retired>>

VerifyEmailMessage(code) ==
  IF code = "INVALID_TOKEN" THEN <<"Invalid verification token">>
  ELSE IF code = "TOKEN_USED" THEN <<"Verification token has already been used">>
  ELSE <<"Verification token has expired">>

\* findUnique({where: {token}}) and the three checks
VerifyEmailFindToken(r) ==
  /\ At(r, "verifyEmail", "findToken")
  /\ LET found == FindToken(verificationTokens, req[r].in.token)
         code == TokenCheck(found, now)
     IN IF code # ""
          THEN Respond(r, ErrorResponse(400, code, VerifyEmailMessage(code)))
          ELSE Goto(r, "transaction", [verificationToken |-> CHOOSE x \in found : TRUE])
  /\ UNCHANGED <<now, ticks, conc, articles, client, users, sessions, resetTokens, verificationTokens,
                 nextId, accessTokens, retired>>

\* a verification that marks the token used and leaves the user as it is
VerifyEmailMarksTokenOnly(r) ==
  /\ At(r, "verifyEmail", "transaction")
  /\ verificationTokens' = MarkUsed(verificationTokens, req[r].loc.verificationToken.token)
  /\ Respond(r, SuccessResponse(200, [message |-> <<"Email verified successfully">>]))
  /\ UNCHANGED <<now, ticks, conc, articles, client, users, sessions, resetTokens, nextId, accessTokens,
                 retired>>

\* prisma.$transaction([emailVerificationToken.update, user.update])
VerifyEmailTransaction(r) ==
  /\ At(r, "verifyEmail", "transaction")
  /\ verificationTokens' = MarkUsed(verificationTokens, req[r].loc.verificationToken.token)
  /\ users' = [users EXCEPT ![req[r].loc.verificationToken.userId] =
                 ApplyUpdate(@, [emailVerified |-> now])]
  /\ Respond(r, SuccessResponse(200, [message |-> <<"Email verified successfully">>]))
  /\ UNCHANGED <<now, ticks, conc, articles, client, sessions, resetTokens, nextId, accessTokens, retired>>

ForgotPasswordStart(r) ==
  \E email \in Emails :
    /\ CanStart(r)
    /\ Begin(r, "forgotPassword", "findUser", [email |-> email])
    /\ UNCHANGED <<now, ticks, conc, articles, client, users, sessions, resetTokens, verificationTokens,
                   nextId, accessTokens, retired>>

ForgotPasswordResponse ==
  SuccessResponse(200,
    [message |-> <<"If the email exists, a password reset link has been sent">>])

\* a handler that tells the client that the email is unknown
ForgotPasswordFindUserNotFound(r) ==
  /\ At(r, "forgotPassword", "findUser")
  /\ IF req[r].in.email \notin DOMAIN users
       THEN Respond(r, ErrorResponse(404, "USER_NOT_FOUND", <<"User not found">>))
       ELSE Goto(r, "invalidateTokens", [user |-> [id |-> req[r].in.email]])
  /\ UNCHANGED <<now, ticks, conc, articles, client, users, sessions, resetTokens, verificationTokens,
                 nextId, accessTokens, retired>>

\* findUnique({where: {email}}) and the answer to an unknown email
ForgotPasswordFindUser(r) ==
  /\ At(r, "forgotPassword", "findUser")
  /\ IF req[r].in.email \notin DOMAIN users
       THEN Respond(r, ForgotPasswordResponse)
       ELSE Goto(r, "invalidateTokens", [user |-> [id |-> req[r].in.email]])
  /\ UNCHANGED <<now, ticks, conc, articles, client, users, sessions, resetTokens, verificationTokens,
                 nextId, accessTokens, retired>>

\* passwordResetToken.updateMany({where: {userId, used: false}, data: {used: true}}),
\* generateSecureToken, getPasswordResetExpiry
ForgotPasswordInvalidateTokens(r) ==
  /\ At(r, "forgotPassword", "invalidateTokens")
  /\ nextId <= MaxId
  /\ resetTokens' = {IF t.userId = req[r].loc.user.id /\ ~t.used
                       THEN ApplyUpdate(t, [used |-> TRUE]) ELSE t : t \in resetTokens}
  /\ nextId' = nextId + 1
  /\ Goto(r, "createToken",
          [user |-> req[r].loc.user, resetToken |-> nextId,
           expiresAt |-> getPasswordResetExpiry(now)])
  /\ UNCHANGED <<now, ticks, conc, articles, client, users, sessions, verificationTokens,
                 accessTokens, retired>>

\* passwordResetToken.create and the same answer as for an unknown email
ForgotPasswordCreateToken(r) ==
  /\ At(r, "forgotPassword", "createToken")
  /\ resetTokens' = resetTokens \cup
       {[token |-> req[r].loc.resetToken, userId |-> req[r].loc.user.id,
         expiresAt |-> req[r].loc.expiresAt, used |-> FALSE]}
  /\ Respond(r, ForgotPasswordResponse)
  /\ UNCHANGED <<now, ticks, conc, articles, client, users, sessions, verificationTokens,
                 nextId, accessTokens, retired>>

ResetPasswordStart(r) ==
  \E token \in SecureTokenInputs(resetTokens), password \in Passwords :
    /\ CanStart(r)
    /\ Begin(r, "resetPassword", "findToken", [token |-> token, password |-> password])
    /\ UNCHANGED <<now, ticks, conc, articles, client, users, sessions, resetTokens, verificationTokens,
                   nextId, accessTokens, retired>>

ResetPasswordMessage(code) ==
  IF code = "INVALID_TOKEN" THEN <<"Invalid reset token">>
  ELSE IF code = "TOKEN_USED" THEN <<"Reset token has already been used">>
  ELSE <<"Reset token has expired">>

\* findUnique({where: {token}}), the three checks, hashPassword
ResetPasswordFindToken(r) ==
  /\ At(r, "resetPassword", "findToken")
  /\ LET found == FindToken(resetTokens, req[r].in.token)
         code == TokenCheck(found, now)
     IN IF code # ""
          THEN Respond(r, ErrorResponse(400, code, ResetPasswordMessage(code)))
          ELSE Goto(r, "transaction",
                    [resetToken |-> CHOOSE x \in found : TRUE,
                     passwordHash |-> hashPassword(req[r].in.password)])
  /\ UNCHANGED <<now, ticks, conc, articles, client, users, sessions, resetTokens, verificationTokens,
                 nextId, accessTokens, retired>>

\* a reset that leaves the failure counter as it is
ResetPasswordDataKeepsCounter(passwordHash) ==
  [passwordHash |-> passwordHash, lockedUntil |-> NullDate]

\* the user columns the reset writes
ResetPasswordData(passwordHash) ==
  [passwordHash |-> passwordHash, failedLoginAttempts |-> 0, lockedUntil |-> NullDate]

\* prisma.$transaction([passwordResetToken.update, user.update, session.deleteMany])
ResetPasswordTransaction(r) ==
  /\ At(r, "resetPassword", "transaction")
  /\ resetTokens' = MarkUsed(resetTokens, req[r].loc.resetToken.token)
  /\ users' = [users EXCEPT ![req[r].loc.resetToken.userId] =
                 ApplyUpdate(@, ResetPasswordData(req[r].loc.passwordHash))]
  /\ sessions' = {s \in sessions : s.userId # req[r].loc.resetToken.userId}
  /\ retired' = Retire(sessions, sessions')
  /\ Respond(r, SuccessResponse(200,
       [message |-> <<"Password reset successfully. Please login with your new password.">>]))
  /\ UNCHANGED <<now, ticks, conc, articles, client, verificationTokens, nextId, accessTokens>>

-----------------------------------------------------------------------------
(* POST /api/auth/change-password *)

UserNotFound == ErrorResponse(404, "USER_NOT_FOUND", <<"User not found">>)

InvalidPassword == ErrorResponse(400, "INVALID_PASSWORD", <<"Current password is incorrect">>)

\* requireAuth, then the handler up to its findUnique
ChangePasswordStart(r) ==
  \E user \in Callers(now), currentPassword \in Passwords, newPassword \in Passwords :
    LET in == [user |-> user, currentPassword |-> currentPassword,
               newPassword |-> newPassword]
    IN /\ CanStart(r)
       /\ IF user = NoPayload
            THEN Finish(r, "changePassword", in, Unauthorized)
            ELSE Begin(r, "changePassword", "findUser", in)
       /\ UNCHANGED <<now, ticks, conc, articles, client, users, sessions, resetTokens, verificationTokens,
                      nextId, accessTokens, retired>>

\* findUnique({where: {id: req.user.userId}}), USER_NOT_FOUND, verifyPassword
\* of the current password against the row as it was read, INVALID_PASSWORD,
\* hashPassword of the new one
ChangePasswordFindUser(r) ==
  /\ At(r, "changePassword", "findUser")
  /\ IF req[r].in.user.userId \notin DOMAIN users
       THEN Respond(r, UserNotFound)
       ELSE IF ~verifyPassword(req[r].in.currentPassword,
                               users[req[r].in.user.userId].passwordHash)
              THEN Respond(r, InvalidPassword)
              ELSE Goto(r, "update", [passwordHash |-> hashPassword(req[r].in.newPassword)])
  /\ UNCHANGED <<now, ticks, conc, articles, client, users, sessions, resetTokens, verificationTokens,
                 nextId, accessTokens, retired>>

\* a change that also clears the failure counter and the lock
ChangePasswordDataClearsLock(passwordHash) ==
  [passwordHash |-> passwordHash, failedLoginAttempts |-> 0, lockedUntil |-> NullDate]

\* the user columns the change writes
ChangePasswordData(passwordHash) == [passwordHash |-> passwordHash]

\* prisma.user.update({where: {id}, data: {passwordHash}}), the 200 answer
ChangePasswordUpdate(r) ==
  /\ At(r, "changePassword", "update")
  /\ users' = [users EXCEPT ![req[r].in.user.userId] =
                 ApplyUpdate(@, ChangePasswordData(req[r].loc.passwordHash))]
  /\ Respond(r, SuccessResponse(200, [message |-> <<"Password changed successfully">>]))
  /\ UNCHANGED <<now, ticks, conc, articles, client, sessions, resetTokens, verificationTokens,
                 nextId, accessTokens, retired>>

ChangePassword(r) ==
  \/ ChangePasswordStart(r)
  \/ ChangePasswordFindUser(r)
  \/ ChangePasswordUpdate(r)

(* PUT /api/admin/users/:userId/role *)

Roles == {"ADMIN", "EDITOR", "VIEWER"}

\* the user ids a client can put in the path: one of a user, or one of none
UserIdInputs == Emails \cup {"nobody"}

Forbidden(message) == ErrorResponse(403, "FORBIDDEN", message)

\* middleware/auth.ts requireRole(...allowed): the role attached by
\* requireAuth is a member of the allowed roles, or the request is answered 403
requireRole(allowed, user) == user.role \in allowed

\* a check that takes no caller for the target
IsOwnUserNever(userId, user) == FALSE

\* userId === req.user?.userId
IsOwnUser(userId, user) == userId = user.userId

\* requireAuth, requireRole('ADMIN'), then the handler up to its findUnique
UpdateRoleStart(r) ==
  \E user \in Callers(now), userId \in UserIdInputs, role \in Roles :
    LET in == [user |-> user, userId |-> userId, role |-> role]
    IN /\ CanStart(r)
       /\ IF user = NoPayload
            THEN Finish(r, "updateRole", in, Unauthorized)
            ELSE IF ~requireRole({"ADMIN"}, user)
                   THEN Finish(r, "updateRole", in, Forbidden(<<"Insufficient permissions">>))
                   ELSE IF IsOwnUser(userId, user)
                          THEN Finish(r, "updateRole", in,
                                      ErrorResponse(400, "INVALID_OPERATION",
                                                    <<"Cannot change your own role">>))
                          ELSE Begin(r, "updateRole", "findUser", in)
       /\ UNCHANGED <<now, ticks, conc, articles, client, users, sessions, resetTokens, verificationTokens,
                      nextId, accessTokens, retired>>

\* findUnique({where: {id: userId}}) and the NOT_FOUND answer
UpdateRoleFindUser(r) ==
  /\ At(r, "updateRole", "findUser")
  /\ IF req[r].in.userId \notin DOMAIN users
       THEN Respond(r, ErrorResponse(404, "NOT_FOUND", <<"User not found">>))
       ELSE Goto(r, "update", [user |-> [id |-> req[r].in.userId]])
  /\ UNCHANGED <<now, ticks, conc, articles, client, users, sessions, resetTokens, verificationTokens,
                 nextId, accessTokens, retired>>

\* prisma.user.update({where: {id: userId}, data: {role}}), the 200 answer
UpdateRoleUpdate(r) ==
  /\ At(r, "updateRole", "update")
  /\ users' = [users EXCEPT ![req[r].in.userId] = ApplyUpdate(@, [role |-> req[r].in.role])]
  /\ Respond(r, SuccessResponse(200,
       [user |-> [id |-> req[r].in.userId, role |-> req[r].in.role]]))
  /\ UNCHANGED <<now, ticks, conc, articles, client, sessions, resetTokens, verificationTokens,
                 nextId, accessTokens, retired>>

UpdateRole(r) ==
  \/ UpdateRoleStart(r)
  \/ UpdateRoleFindUser(r)
  \/ UpdateRoleUpdate(r)

-----------------------------------------------------------------------------
(* A store operation that fails *)

\* the awaited prisma call a handler has come to throws (the store cannot be
\* reached): the catch of the handler passes the error to errorHandler, which
\* answers 500; what the handler wrote before stays written
StoreFails(r) ==
  /\ InFlight(r)
  /\ Respond(r, InternalError)
  /\ UNCHANGED <<now, ticks, conc, articles, client, users, sessions, resetTokens, verificationTokens,
                 nextId, accessTokens, retired>>

-----------------------------------------------------------------------------
(* POST, PUT and DELETE /api/articles; the requests carry no tags, and      *)
(* those of PUT change the content and not the title                        *)

\* the bodies a client sends: slug is slugify(title) of its title
ArticleBodies == [slug : {"t"}, content : {"v1", "v2"}]

\* the ids a client can put in the path: one of an article, or one of none
ArticleIdInputs == {x.id : x \in articles} \cup {NeverIssued}

ArticleById(id) == {x \in articles : x.id = id}

ArticleNotFound == ErrorResponse(404, "ARTICLE_NOT_FOUND", <<"Article not found">>)

\* generateUniqueSlug: slug, slug-1, slug-2, .. until no article holds it;
\* <<slug, 0>> stands for the bare slug
RECURSIVE generateUniqueSlug(_, _)
generateUniqueSlug(slug, counter) ==
  IF \E x \in articles : x.slug = <<slug, counter>>
    THEN generateUniqueSlug(slug, counter + 1)
    ELSE <<slug, counter>>

\* requireAuth, then the permission check of POST
CreateArticleStart(r) ==
  \E user \in Callers(now), body \in ArticleBodies :
    LET in == [user |-> user, body |-> body]
    IN /\ CanStart(r)
       /\ IF user = NoPayload
            THEN Finish(r, "createArticle", in, Unauthorized)
            ELSE IF user.role = "VIEWER"
                   THEN Finish(r, "createArticle", in,
                          Forbidden(<<"You do not have permission to create articles">>))
                   ELSE Begin(r, "createArticle", "slug", in)
       /\ UNCHANGED <<now, ticks, conc, articles, client, users, sessions, resetTokens,
                      verificationTokens, nextId, accessTokens, retired>>

\* the lookups of generateUniqueSlug
CreateArticleSlug(r) ==
  /\ At(r, "createArticle", "slug")
  /\ Goto(r, "create", [slug |-> generateUniqueSlug(req[r].in.body.slug, 0)])
  /\ UNCHANGED <<now, ticks, conc, articles, client, users, sessions, resetTokens,
                 verificationTokens, nextId, accessTokens, retired>>

\* prisma.article.create with authorId: req.user.userId, which the unique
\* index on slug can refuse; the 201 answer
CreateArticleCreate(r) ==
  /\ At(r, "createArticle", "create")
  /\ IF \E x \in articles : x.slug = req[r].loc.slug
       THEN /\ Respond(r, InternalError)
            /\ UNCHANGED <<articles, nextId>>
       ELSE /\ nextId <= MaxId
            /\ articles' = articles \cup
                 {[id |-> nextId, slug |-> req[r].loc.slug,
                   content |-> req[r].in.body.content,
                   authorId |-> req[r].in.user.userId]}
            /\ nextId' = nextId + 1
            /\ Respond(r, SuccessResponse(201, [article |-> [id |-> nextId]]))
  /\ UNCHANGED <<now, ticks, conc, client, users, sessions, resetTokens,
                 verificationTokens, accessTokens, retired>>

\* requireAuth, then the handler of PUT or of DELETE up to its findUnique
ArticleStart(r, op) ==
  \E user \in Callers(now), id \in ArticleIdInputs, content \in {"v1", "v2"} :
    LET in == [user |-> user, id |-> id, content |-> content]
    IN /\ CanStart(r)
       /\ IF user = NoPayload
            THEN Finish(r, op, in, Unauthorized)
            ELSE Begin(r, op, "findArticle", in)
       /\ UNCHANGED <<now, ticks, conc, articles, client, users, sessions, resetTokens,
                      verificationTokens, nextId, accessTokens, retired>>

\* a check that lets every editor edit every article
MayEditAnyEditor(article, user) ==
  IF user.role = "VIEWER" THEN "You do not have permission to edit articles" ELSE ""

\* the permission checks of PUT: isOwner or isAdmin, and not a VIEWER; "" when
\* they pass, the message of the 403 otherwise
MayEdit(article, user) ==
  LET isOwner == article.authorId = user.userId
      isAdmin == user.role = "ADMIN"
  IN IF ~isOwner /\ ~isAdmin THEN "You do not have permission to edit this article"
     ELSE IF user.role = "VIEWER" THEN "You do not have permission to edit articles"
     ELSE ""

\* findUnique({where: {id}}), ARTICLE_NOT_FOUND, the permission checks
UpdateArticleFind(r) ==
  /\ At(r, "updateArticle", "findArticle")
  /\ IF ArticleById(req[r].in.id) = {}
       THEN Respond(r, ArticleNotFound)
       ELSE LET article == CHOOSE x \in ArticleById(req[r].in.id) : TRUE
                refusal == MayEdit(article, req[r].in.user)
            IN IF refusal # ""
                 THEN Respond(r, Forbidden(<<refusal>>))
                 ELSE Goto(r, "update", [updateData |-> [content |-> req[r].in.content]])
  /\ UNCHANGED <<now, ticks, conc, articles, client, users, sessions, resetTokens,
                 verificationTokens, nextId, accessTokens, retired>>

\* prisma.article.update({where: {id}, data: updateData}), which throws when
\* the row is gone; the 200 answer
UpdateArticleUpdate(r) ==
  /\ At(r, "updateArticle", "update")
  /\ IF ArticleById(req[r].in.id) = {}
       THEN /\ Respond(r, InternalError)
            /\ UNCHANGED articles
       ELSE /\ articles' = {IF x.id = req[r].in.id
                              THEN ApplyUpdate(x, req[r].loc.updateData) ELSE x
                            : x \in articles}
            /\ Respond(r, SuccessResponse(200, [article |-> [id |-> req[r].in.id]]))
  /\ UNCHANGED <<now, ticks, conc, client, users, sessions, resetTokens,
                 verificationTokens, nextId, accessTokens, retired>>

\* findUnique({where: {id}}), ARTICLE_NOT_FOUND, the admin check
DeleteArticleFind(r) ==
  /\ At(r, "deleteArticle", "findArticle")
  /\ IF ArticleById(req[r].in.id) = {}
       THEN Respond(r, ArticleNotFound)
       ELSE IF req[r].in.user.role # "ADMIN"
              THEN Respond(r, Forbidden(<<"Only admins can delete articles">>))
              ELSE Goto(r, "delete", [id |-> req[r].in.id])
  /\ UNCHANGED <<now, ticks, conc, articles, client, users, sessions, resetTokens,
                 verificationTokens, nextId, accessTokens, retired>>

\* prisma.article.delete({where: {id}}), which throws when the row is gone;
\* the 200 answer
DeleteArticleDelete(r) ==
  /\ At(r, "deleteArticle", "delete")
  /\ IF ArticleById(req[r].in.id) = {}
       THEN /\ Respond(r, InternalError)
            /\ UNCHANGED articles
       ELSE /\ articles' = articles \ ArticleById(req[r].in.id)
            /\ Respond(r, SuccessResponse(200,
                 [message |-> <<"Article deleted successfully">>]))
  /\ UNCHANGED <<now, ticks, conc, client, users, sessions, resetTokens,
                 verificationTokens, nextId, accessTokens, retired>>

-----------------------------------------------------------------------------
(* The web client (apps/web/src/lib/auth.tsx) *)

\* null: no user, no access token in localStorage or in the ApiClient (a
\* missing refresh token is NoRefreshToken)
Null == [null |-> TRUE]

\* a page that has just been loaded by a browser whose localStorage is empty:
\* useState(null), useState(true), no fetchUser or refreshToken under way
InitClient ==
  [accessToken |-> Null, refreshToken |-> NoRefreshToken, apiToken |-> Null,
   user |-> Null, isLoading |-> TRUE,
   proc |-> [p \in 1..MaxReq |-> [pc |-> "idle"]]]

\* GET /api/auth/me as it reaches the server with this bearer token:
\* requireAuth, then the handler up to its findUnique
GetMe(r, token) ==
  req' = [req EXCEPT ![r] =
            IF requireAuth(token, now) = NoPayload
              THEN [op |-> "me", pc |-> "done", in |-> [user |-> NoPayload],
                    resp |-> Unauthorized]
              ELSE [op |-> "me", pc |-> "findUser",
                    in |-> [user |-> requireAuth(token, now)]]]

\* routes/auth.ts GET /me: findUnique({where: {id: req.user.userId}}),
\* USER_NOT_FOUND, the 200 answer
MeFindUser(r) ==
  /\ At(r, "me", "findUser")
  /\ IF req[r].in.user.userId \notin DOMAIN users
       THEN Respond(r, UserNotFound)
       ELSE Respond(r, SuccessResponse(200,
              [user |-> [id |-> req[r].in.user.userId,
                         role |-> users[req[r].in.user.userId].role]]))
  /\ UNCHANGED <<now, ticks, conc, articles, client, users, sessions, resetTokens,
                 verificationTokens, nextId, accessTokens, retired>>

\* the calls of fetchUser that wait for a response
Awaiting == {"me", "refresh", "retry"}

\* the call p of fetchUser is at pc in the client c
SetProc(c, p, pc) == [c EXCEPT !.proc[p] = [pc |-> pc]]

\* setUser(user) when there is one, then setIsLoading(false)
Settle(c, user) == [c EXCEPT !.user = user, !.isLoading = FALSE]

\* removeItem(TOKEN_KEY), removeItem(REFRESH_TOKEN_KEY), setAccessToken(null),
\* then setIsLoading(false)
GiveUp(c) ==
  [c EXCEPT !.accessToken = Null, !.refreshToken = NoRefreshToken,
            !.apiToken = Null, !.isLoading = FALSE]

\* fetchUser is called (useEffect, or a second call while the first waits):
\* without a stored access token it ends at once, with one it asks GET /me
FetchUserStart(p) ==
  /\ client.proc[p].pc = "idle"
  /\ Cardinality({q \in Slots : client.proc[q].pc \in Awaiting}) < conc
  /\ IF client.accessToken = Null
       THEN /\ client' = SetProc(Settle(client, client.user), p, "done")
            /\ UNCHANGED req
       ELSE /\ client' = SetProc([client EXCEPT !.apiToken = client.accessToken], p, "me")
            /\ GetMe(p, client.accessToken)
  /\ UNCHANGED <<now, ticks, conc, articles, users, sessions, resetTokens,
                 verificationTokens, nextId, accessTokens, retired>>

\* the answer of GET /me: the user is set, or refreshToken() is called, which
\* returns false without a stored refresh token and asks POST /refresh with one
FetchUserMe(p) ==
  /\ client.proc[p].pc = "me"
  /\ Answered(p, "me")
  /\ IF req[p].resp.success
       THEN /\ client' = SetProc(Settle(client, req[p].resp.data.user), p, "done")
            /\ UNCHANGED req
       ELSE IF client.refreshToken = NoRefreshToken
              THEN /\ client' = SetProc(GiveUp(client), p, "done")
                   /\ UNCHANGED req
              ELSE /\ client' = SetProc(client, p, "refresh")
                   /\ Begin(p, "refresh", "findSession",
                            [refreshToken |-> client.refreshToken])
  /\ UNCHANGED <<now, ticks, conc, articles, users, sessions, resetTokens,
                 verificationTokens, nextId, accessTokens, retired>>

\* the answer of POST /refresh: the new tokens are stored and GET /me is asked
\* again, or the stored tokens are removed
FetchUserRefreshed(p) ==
  /\ client.proc[p].pc = "refresh"
  /\ Answered(p, "refresh")
  /\ IF req[p].resp.success
       THEN /\ client' = SetProc([client EXCEPT
                                    !.accessToken = req[p].resp.data.accessToken,
                                    !.refreshToken = req[p].resp.data.refreshToken,
                                    !.apiToken = req[p].resp.data.accessToken],
                                 p, "retry")
            /\ GetMe(p, req[p].resp.data.accessToken)
       ELSE /\ client' = SetProc(GiveUp(client), p, "done")
            /\ UNCHANGED req
  /\ UNCHANGED <<now, ticks, conc, articles, users, sessions, resetTokens,
                 verificationTokens, nextId, accessTokens, retired>>

\* the answer of the second GET /me
FetchUserRetry(p) ==
  /\ client.proc[p].pc = "retry"
  /\ Answered(p, "me")
  /\ IF req[p].resp.success
       THEN client' = SetProc(Settle(client, req[p].resp.data.user), p, "done")
       ELSE client' = SetProc(GiveUp(client), p, "done")
  /\ UNCHANGED <<now, ticks, conc, articles, users, sessions, resetTokens,
                 verificationTokens, nextId, accessTokens, retired, req>>

\* ApiClient.request throws (fetch rejects, or the body is not JSON): nothing
\* catches it, the call of fetchUser ends there
RequestThrows(p) ==
  /\ client.proc[p].pc \in Awaiting
  /\ client' = SetProc(client, p, "thrown")
  /\ UNCHANGED <<now, ticks, conc, articles, users, sessions, resetTokens,
                 verificationTokens, nextId, accessTokens, retired, req>>

-----------------------------------------------------------------------------
(* The clock *)

\* the instants at which some comparison of the code changes its answer
Deadlines ==
  {users[e].lockedUntil : e \in DOMAIN users}
    \cup {s.expiresAt : s \in sessions}
    \cup {t.expiresAt : t \in resetTokens}
    \cup {t.expiresAt : t \in verificationTokens}
    \cup {a.exp : a \in accessTokens}

\* a deadline d is compared as t < d (lock, access token) or as d < t (expiry
\* of a session or a token): d and d + 1 are the instants that tell them apart
Instants == Deadlines \cup {d + 1 : d \in Deadlines}

Tick ==
  /\ ticks < MaxTicks
  /\ \E t \in Instants : t > now /\ now' = t
  /\ ticks' = ticks + 1
  /\ UNCHANGED <<conc, articles, client, users, sessions, resetTokens, verificationTokens,
                 nextId, accessTokens, retired, req>>

-----------------------------------------------------------------------------
(* Specifications *)

\* the store of a server that has just been deployed
InitStore ==
  /\ now = 0
  /\ ticks = 0
  /\ users = <<>>
  /\ sessions = {}
  /\ resetTokens = {}
  /\ verificationTokens = {}
  /\ nextId = 1
  /\ accessTokens = {}
  /\ retired = {}
  /\ req = [r \in Slots |-> Idle]
  /\ articles = {}
  /\ client = InitClient

\* the random tokens of the registration of the i-th user
RegistrationRefreshToken(i) == 100 * i + 1

RegistrationVerificationToken(i) == 100 * i + 2

\* the store after the users of the sequence reg have registered at time 0
\* with the password pw (RegisterFindUser .. RegisterCreateVerificationToken)
StoreRegistered(reg, pw) ==
  /\ now = 0
  /\ ticks = 0
  /\ users = [e \in {reg[i] : i \in DOMAIN reg} |-> NewUser(hashPassword(pw))]
  /\ sessions = {NewSession(RegistrationRefreshToken(i), reg[i],
                            RegistrationRefreshToken(i), getRefreshTokenExpiry(0))
                 : i \in DOMAIN reg}
  /\ resetTokens = {}
  /\ verificationTokens =
       {[token |-> RegistrationVerificationToken(i), userId |-> reg[i],
         expiresAt |-> getEmailVerificationExpiry(0), used |-> FALSE] : i \in DOMAIN reg}
  /\ nextId = 1
  /\ accessTokens =
       {generateAccessToken([userId |-> reg[i], role |-> "VIEWER"], 0) : i \in DOMAIN reg}
  /\ retired = {}
  /\ req = [r \in Slots |-> Idle]
  /\ articles = {}

\* that store, and a web client that has not been used
InitRegistered(reg, pw) == StoreRegistered(reg, pw) /\ client = InitClient

Register(r) ==
  \/ RegisterStart(r)
  \/ RegisterFindUser(r)
  \/ RegisterCreateUser(r)
  \/ RegisterCreateSession(r)
  \/ RegisterCreateVerificationToken(r)

LoginSteps(r) ==
  \/ LoginFindUser(r)
  \/ LoginVerifyPassword(r)
  \/ LoginUpdateFailed(r)
  \/ LoginResetAttempts(r)
  \/ LoginCreateSession(r)

Login(r) == LoginStart(r) \/ LoginSteps(r)

Refresh(r) ==
  \/ RefreshStart(r)
  \/ RefreshFindSession(r)
  \/ RefreshDeleteExpired(r)
  \/ RefreshUpdateSession(r)

Logout(r) ==
  \/ LogoutStart(r)
  \/ LogoutDeleteSession(r)
  \/ LogoutAllStart(r)
  \/ LogoutAllDeleteSessions(r)

VerifyEmail(r) ==
  \/ VerifyEmailStart(r)
  \/ VerifyEmailFindToken(r)
  \/ VerifyEmailTransaction(r)

ForgotPassword(r) ==
  \/ ForgotPasswordStart(r)
  \/ ForgotPasswordFindUser(r)
  \/ ForgotPasswordInvalidateTokens(r)
  \/ ForgotPasswordCreateToken(r)

ResetPassword(r) ==
  \/ ResetPasswordStart(r)
  \/ ResetPasswordFindToken(r)
  \/ ResetPasswordTransaction(r)

\* every handler, one request at a time, from the empty store
Init == InitStore /\ conc = 1

Next ==
  \/ \E r \in Slots : Register(r)
  \/ \E r \in Slots : Login(r)
  \/ \E r \in Slots : Refresh(r)
  \/ \E r \in Slots : Logout(r)
  \/ \E r \in Slots : VerifyEmail(r)
  \/ \E r \in Slots : ForgotPassword(r)
  \/ \E r \in Slots : ResetPassword(r)
  \/ Tick

Spec == Init /\ [][Next]_vars

\* logins of one registered user and of an unknown email, one at a time
InitLogin == InitRegistered(<<"a@x.com">>, "Passw0rd!") /\ conc = 1

NextLogin ==
  \/ \E r \in Slots : Login(r)
  \/ Tick

SpecLogin == InitLogin /\ [][NextLogin]_vars

\* wrong-password logins of one account, MaxReq at a time
InitLoginConc == InitRegistered(<<"a@x.com">>, "Passw0rd!") /\ conc = MaxReq

NextLoginConc ==
  \/ \E r \in Slots : LoginStartAs(r, {"a@x.com"}, {"0therPass"})
  \/ \E r \in Slots : LoginFindUser(r)
  \/ \E r \in Slots : LoginVerifyPassword(r)
  \/ \E r \in Slots : LoginUpdateFailed(r)

SpecLoginConc == InitLoginConc /\ [][NextLoginConc]_vars

\* the handlers that write the session table, one request at a time; the
\* logins are those of a@x.com with the password of its registration
InitSession == InitRegistered(<<"a@x.com", "b@x.com">>, "Passw0rd!") /\ conc = 1

NextSession ==
  \/ \E r \in Slots : LoginStartAs(r, {"a@x.com"}, {"Passw0rd!"})
  \/ \E r \in Slots : LoginSteps(r)
  \/ \E r \in Slots : Refresh(r)
  \/ \E r \in Slots : Logout(r)
  \/ \E r \in Slots : ForgotPassword(r)
  \/ \E r \in Slots : ResetPassword(r)
  \/ Tick

SpecSession == InitSession /\ [][NextSession]_vars

\* refresh requests, MaxReq at a time
InitConc == InitRegistered(<<"a@x.com", "b@x.com">>, "Passw0rd!") /\ conc = MaxReq

NextRefreshConc ==
  \/ \E r \in Slots : Refresh(r)
  \/ Tick

SpecRefreshConc == InitConc /\ [][NextRefreshConc]_vars

\* the single-use tokens, one request at a time
NextTokens ==
  \/ \E r \in Slots : VerifyEmail(r)
  \/ \E r \in Slots : ForgotPassword(r)
  \/ \E r \in Slots : ResetPassword(r)
  \/ Tick

SpecTokens == InitSession /\ [][NextTokens]_vars

\* the single-use tokens, MaxReq requests at a time
NextTokensConc ==
  \/ \E r \in Slots : VerifyEmail(r)
  \/ \E r \in Slots : ForgotPassword(r)
  \/ \E r \in Slots : ResetPassword(r)

SpecTokensConc == InitConc /\ [][NextTokensConc]_vars

\* forgot-password and reset-password of a registered and of an unknown email,
\* one request at a time
NextForgot ==
  \/ \E r \in Slots : ForgotPassword(r)
  \/ \E r \in Slots : ResetPassword(r)
  \/ Tick

SpecForgot == InitLogin /\ [][NextForgot]_vars

\* registration, login and forgot-password over a store whose operations can
\* fail, one request at a time
NextFaults ==
  \/ \E r \in Slots : Register(r)
  \/ \E r \in Slots : Login(r)
  \/ \E r \in Slots : ForgotPassword(r)
  \/ \E r \in Slots : StoreFails(r)

SpecFaults == InitLogin /\ [][NextFaults]_vars

\* the requests that present a token with an expiry, one at a time
NextExpiry ==
  \/ \E r \in Slots : Refresh(r)
  \/ \E r \in Slots : VerifyEmail(r)
  \/ \E r \in Slots : ForgotPassword(r)
  \/ \E r \in Slots : ResetPassword(r)
  \/ Tick

SpecExpiry == InitLogin /\ [][NextExpiry]_vars

\* registrations and logins of a registered and of a new email, one at a time
NextRegister ==
  \/ \E r \in Slots : Register(r)
  \/ \E r \in Slots : Login(r)
  \/ Tick

SpecRegister == InitLogin /\ [][NextRegister]_vars

\* logins of a@x.com, refreshes and logout-all, one request at a time
NextLogoutAll ==
  \/ \E r \in Slots : LoginStartAs(r, {"a@x.com"}, Passwords)
  \/ \E r \in Slots : LoginSteps(r)
  \/ \E r \in Slots : Refresh(r)
  \/ \E r \in Slots : LogoutAllStart(r)
  \/ \E r \in Slots : LogoutAllDeleteSessions(r)
  \/ Tick

SpecLogoutAll == InitSession /\ [][NextLogoutAll]_vars

\* logins of a@x.com, refreshes and logouts, one request at a time
NextLogout ==
  \/ \E r \in Slots : LoginStartAs(r, {"a@x.com"}, Passwords)
  \/ \E r \in Slots : LoginSteps(r)
  \/ \E r \in Slots : Refresh(r)
  \/ \E r \in Slots : LogoutStart(r)
  \/ \E r \in Slots : LogoutDeleteSession(r)
  \/ Tick

SpecLogout == InitSession /\ [][NextLogout]_vars

\* logins of a@x.com, refreshes and revocations of a session by its id, one
\* request at a time
NextSessions ==
  \/ \E r \in Slots : LoginStartAs(r, {"a@x.com"}, Passwords)
  \/ \E r \in Slots : LoginSteps(r)
  \/ \E r \in Slots : Refresh(r)
  \/ \E r \in Slots : DeleteSession(r)
  \/ Tick

SpecSessions == InitSession /\ [][NextSessions]_vars

\* logins of a@x.com, refreshes and changes of password, one request at a
\* time
NextChangePassword ==
  \/ \E r \in Slots : LoginStartAs(r, {"a@x.com"}, Passwords)
  \/ \E r \in Slots : LoginSteps(r)
  \/ \E r \in Slots : Refresh(r)
  \/ \E r \in Slots : ChangePassword(r)
  \/ Tick

SpecChangePassword == InitSession /\ [][NextChangePassword]_vars

\* logins and password resets of one registered user and of an unknown email,
\* one request at a time
NextLockout ==
  \/ \E r \in Slots : Login(r)
  \/ \E r \in Slots : ForgotPassword(r)
  \/ \E r \in Slots : ResetPassword(r)
  \/ Tick

SpecLockout == InitLogin /\ [][NextLockout]_vars

\* logins of a@x.com with the password of its registration and password
\* resets, MaxReq requests at a time
NextResetRace ==
  \/ \E r \in Slots : LoginStartAs(r, {"a@x.com"}, {"Passw0rd!"})
  \/ \E r \in Slots : LoginSteps(r)
  \/ \E r \in Slots : ForgotPassword(r)
  \/ \E r \in Slots : ResetPassword(r)

SpecResetRace == InitLoginConc /\ [][NextResetRace]_vars

\* the refresh token of the login of the i-th user
LoginRefreshToken(i) == 100 * i + 3

\* the store after a@x.com and b@x.com have registered, the operator has made
\* a@x.com an admin in the database, a@x.com has logged in, has given
\* b@x.com the role roleB and, unless that is the role b@x.com had, b@x.com
\* has logged in, all at time 0
InitStaff(roleB) ==
  /\ now = 0
  /\ ticks = 0
  /\ users = [e \in Emails |->
                ApplyUpdate(NewUser(hashPassword("Passw0rd!")),
                            [role |-> IF e = "a@x.com" THEN "ADMIN" ELSE roleB])]
  /\ sessions =
       {NewSession(RegistrationRefreshToken(1), "a@x.com",
                   RegistrationRefreshToken(1), getRefreshTokenExpiry(0)),
        NewSession(RegistrationRefreshToken(2), "b@x.com",
                   RegistrationRefreshToken(2), getRefreshTokenExpiry(0)),
        NewSession(LoginRefreshToken(1), "a@x.com",
                   LoginRefreshToken(1), getRefreshTokenExpiry(0))}
         \cup IF roleB = "VIEWER" THEN {}
              ELSE {NewSession(LoginRefreshToken(2), "b@x.com",
                               LoginRefreshToken(2), getRefreshTokenExpiry(0))}
  /\ resetTokens = {}
  /\ verificationTokens =
       {[token |-> RegistrationVerificationToken(1), userId |-> "a@x.com",
         expiresAt |-> getEmailVerificationExpiry(0), used |-> FALSE],
        [token |-> RegistrationVerificationToken(2), userId |-> "b@x.com",
         expiresAt |-> getEmailVerificationExpiry(0), used |-> FALSE]}
  /\ nextId = 1
  /\ accessTokens =
       {generateAccessToken([userId |-> "a@x.com", role |-> "VIEWER"], 0),
        generateAccessToken([userId |-> "b@x.com", role |-> "VIEWER"], 0),
        generateAccessToken([userId |-> "a@x.com", role |-> "ADMIN"], 0),
        generateAccessToken([userId |-> "b@x.com", role |-> roleB], 0)}
  /\ retired = {}
  /\ req = [r \in Slots |-> Idle]
  /\ articles = {}
  /\ client = InitClient

\* one request at a time, b@x.com still a viewer
InitAdmin == InitStaff("VIEWER") /\ conc = 1

\* one request at a time, b@x.com an editor
InitArticles == InitStaff("EDITOR") /\ conc = 1

\* the article routes with an admin, an editor and the tokens of the time
\* when both were viewers, one request at a time
NextArticles ==
  \/ \E r \in Slots : CreateArticleStart(r)
  \/ \E r \in Slots : CreateArticleSlug(r)
  \/ \E r \in Slots : CreateArticleCreate(r)
  \/ \E r \in Slots : ArticleStart(r, "updateArticle")
  \/ \E r \in Slots : UpdateArticleFind(r)
  \/ \E r \in Slots : UpdateArticleUpdate(r)
  \/ \E r \in Slots : ArticleStart(r, "deleteArticle")
  \/ \E r \in Slots : DeleteArticleFind(r)
  \/ \E r \in Slots : DeleteArticleDelete(r)

SpecArticles == InitArticles /\ [][NextArticles]_vars

\* changes of role, logins of b@x.com with its password and refreshes, one
\* request at a time
NextRoles ==
  \/ \E r \in Slots : LoginStartAs(r, {"b@x.com"}, {"Passw0rd!"})
  \/ \E r \in Slots : LoginFindUser(r)
  \/ \E r \in Slots : LoginVerifyPassword(r)
  \/ \E r \in Slots : LoginResetAttempts(r)
  \/ \E r \in Slots : LoginCreateSession(r)
  \/ \E r \in Slots : Refresh(r)
  \/ \E r \in Slots : UpdateRole(r)
  \/ Tick

SpecRoles == InitAdmin /\ [][NextRoles]_vars

\* a browser that holds the tokens of the registration of a@x.com; up to
\* MaxReq calls of fetchUser are under way at a time
InitBrowser ==
  /\ StoreRegistered(<<"a@x.com">>, "Passw0rd!")
  /\ client =
       [InitClient EXCEPT
          !.accessToken = generateAccessToken([userId |-> "a@x.com", role |-> "VIEWER"], 0),
          !.refreshToken = RegistrationRefreshToken(1)]
  /\ conc = MaxReq

\* the calls of fetchUser of one page and the requests they make
NextClient ==
  \/ \E p \in Slots : FetchUserStart(p)
  \/ \E p \in Slots : FetchUserMe(p)
  \/ \E p \in Slots : FetchUserRefreshed(p)
  \/ \E p \in Slots : FetchUserRetry(p)
  \/ \E p \in Slots : RequestThrows(p)
  \/ \E r \in Slots : MeFindUser(r)
  \/ \E r \in Slots : RefreshFindSession(r)
  \/ \E r \in Slots : RefreshDeleteExpired(r)
  \/ \E r \in Slots : RefreshUpdateSession(r)
  \/ Tick

SpecClient == InitBrowser /\ [][NextClient]_vars

\* the same page under the scheduling of the browser and of the server: a
\* continuation whose awaited response has arrived is run by the event loop,
\* and a handler that has started runs its next store operation; nothing
\* obliges a request to throw or the clock to move
FairClient ==
  \A p \in Slots :
    /\ WF_vars(FetchUserMe(p))
    /\ WF_vars(FetchUserRefreshed(p))
    /\ WF_vars(FetchUserRetry(p))
    /\ WF_vars(MeFindUser(p))
    /\ WF_vars(RefreshFindSession(p))
    /\ WF_vars(RefreshDeleteExpired(p))
    /\ WF_vars(RefreshUpdateSession(p))

SpecClientFair == InitBrowser /\ [][NextClient]_vars /\ FairClient

-----------------------------------------------------------------------------
(* Properties *)

\* the step is one of the handler in slot r
Stepped(r) == req'[r] # req[r]

\* the handler in slot r answers in this step, with an error of this code
AnswersError(r, status, code) ==
  /\ req'[r].pc = "done"
  /\ ~req'[r].resp.success
  /\ req'[r].resp.status = status
  /\ req'[r].resp.error.code = code

\* the handler in slot r answers in this step, with success
AnswersSuccess(r) == req'[r].pc = "done" /\ req'[r].resp.success

\* a refresh that looks up a token no session holds any more is answered
\* INVALID_REFRESH_TOKEN
RetiredTokenRejected(r) ==
  (At(r, "refresh", "findSession") /\ Stepped(r) /\ req[r].in.refreshToken \in retired)
    => AnswersError(r, 401, "INVALID_REFRESH_TOKEN")

\* a token that went out of use stays out of use
RetiredForGood ==
  /\ retired \subseteq retired'
  /\ SessionTokens(sessions') \cap retired' = {}

\* a refresh that succeeded with R1 and returned R2 leaves R2 in the session
\* and R1 in no session
RotationReplacesToken(r) ==
  (At(r, "refresh", "updateSession") /\ Stepped(r) /\ AnswersSuccess(r))
    => LET R1 == req[r].in.refreshToken
           R2 == req'[r].resp.data.refreshToken
       IN /\ R2 # R1
          /\ R1 \notin SessionTokens(sessions')
          /\ R1 \in retired'
          /\ \E s \in sessions' : s.id = req[r].loc.session.id /\ s.refreshToken = R2

\* a refresh that looks up the token of a session that has not expired goes on
\* to rotate it
LiveTokenAccepted(r) ==
  (/\ At(r, "refresh", "findSession") /\ Stepped(r)
   /\ \E s \in sessions : s.refreshToken = req[r].in.refreshToken /\ ~(s.expiresAt < now))
    => req'[r].pc = "updateSession"

\* C1: rotation is one-shot.  Once a refresh has succeeded with R1 and
\* returned R2, R1 is held by no session again, whatever happens next, and
\* every later refresh that presents R1 is answered INVALID_REFRESH_TOKEN,
\* while the session holds R2, which a refresh accepts until the session
\* is rotated, deleted or expired.
C1_RotationOneShot ==
  [][/\ RetiredForGood
     /\ \A r \in Slots :
          RetiredTokenRejected(r) /\ RotationReplacesToken(r) /\ LiveTokenAccepted(r)]_vars

\* a refresh with R1 is answered INVALID_REFRESH_TOKEN while the session that
\* R1 was issued to lives on with another token
C1_Witness ==
  \E r \in Slots :
    /\ Answered(r, "refresh")
    /\ Code(r) = "INVALID_REFRESH_TOKEN"
    /\ req[r].in.refreshToken \in retired
    /\ \E s \in sessions :
         s.id = req[r].in.refreshToken /\ s.refreshToken # req[r].in.refreshToken

\* C2: of the refresh requests that present the same refresh token, at most
\* one succeeds, in every interleaving.
C2_RefreshAtMostOnce ==
  \A r1, r2 \in Slots :
    (/\ r1 # r2
     /\ Answered(r1, "refresh") /\ Answered(r2, "refresh")
     /\ req[r1].in.refreshToken = req[r2].in.refreshToken)
      => ~(req[r1].resp.success /\ req[r2].resp.success)

\* the wrong-password login that brings the counter to MAX_LOGIN_ATTEMPTS
\* decides lockedUntil 15 minutes after the failed verification
FifthFailureLocks(r) ==
  (/\ At(r, "login", "verifyPassword") /\ Stepped(r)
   /\ ~verifyPassword(req[r].in.password, req[r].loc.user.passwordHash)
   /\ req[r].loc.user.failedLoginAttempts + 1 >= MAX_LOGIN_ATTEMPTS)
    => /\ req'[r].pc = "updateFailed"
       /\ req'[r].loc.updateData =
            [failedLoginAttempts |-> req[r].loc.user.failedLoginAttempts + 1,
             lockedUntil |-> now + LOCKOUT_DURATION_MINUTES]

\* the update after a wrong password counts one more failure and, from the
\* fifth on, stores the lock that was decided
FailureStored(r) ==
  (At(r, "login", "updateFailed") /\ Stepped(r))
    => LET e == req[r].in.email
       IN /\ AnswersError(r, 401, "INVALID_CREDENTIALS")
          /\ users'[e].failedLoginAttempts = users[e].failedLoginAttempts + 1
          /\ users'[e].failedLoginAttempts >= MAX_LOGIN_ATTEMPTS
               => /\ users'[e].lockedUntil # NullDate
                  /\ users'[e].lockedUntil = req[r].loc.updateData.lockedUntil
          /\ sessions' = sessions

\* a login that finds lockedUntil in the future is answered ACCOUNT_LOCKED at
\* once, whatever its password, and writes nothing
LockedLoginRejected(r) ==
  (/\ At(r, "login", "findUser") /\ Stepped(r)
   /\ req[r].in.email \in DOMAIN users
   /\ users[req[r].in.email].lockedUntil # NullDate
   /\ now < users[req[r].in.email].lockedUntil)
    => /\ AnswersError(r, 423, "ACCOUNT_LOCKED")
       /\ UNCHANGED <<users, sessions>>

\* C3: the fifth wrong password in a row locks the account until 15 minutes
\* after that failure, and a login made while lockedUntil is in the future is
\* answered ACCOUNT_LOCKED (423) without a look at the password and without a
\* change of failedLoginAttempts, lockedUntil or the sessions.
C3_LockoutAfterMaxAttempts ==
  [][\A r \in Slots :
       FifthFailureLocks(r) /\ FailureStored(r) /\ LockedLoginRejected(r)]_vars

\* the account was locked at time 0 by five failures and a login with the
\* right password has been answered ACCOUNT_LOCKED
C3_Witness ==
  \E r \in Slots :
    /\ Answered(r, "login")
    /\ Code(r) = "ACCOUNT_LOCKED"
    /\ verifyPassword(req[r].in.password, users[req[r].in.email].passwordHash)
    /\ users[req[r].in.email].failedLoginAttempts = MAX_LOGIN_ATTEMPTS
    /\ users[req[r].in.email].lockedUntil = LOCKOUT_DURATION_MINUTES
    /\ now < users[req[r].in.email].lockedUntil

\* the transaction of a reset marks the token used, replaces the hash, clears
\* the counter and the lock and deletes the sessions of that user, all in one
\* step, and leaves the other users and their sessions as they were
ResetApplied(r) ==
  (At(r, "resetPassword", "transaction") /\ Stepped(r))
    => LET u == req[r].loc.resetToken.userId
       IN /\ AnswersSuccess(r)
          /\ \E t \in resetTokens' : t.token = req[r].in.token /\ t.used
          /\ users'[u] = [users[u] EXCEPT
                            !.passwordHash = hashPassword(req[r].in.password),
                            !.failedLoginAttempts = 0,
                            !.lockedUntil = NullDate]
          /\ \A e \in DOMAIN users \ {u} : users'[e] = users[e]
          /\ DOMAIN users' = DOMAIN users
          /\ sessions' = {s \in sessions : s.userId # u}
          /\ {s.refreshToken : s \in {x \in sessions : x.userId = u}} \subseteq retired'

\* C4: a successful reset-password is one atomic step that marks the token
\* used, replaces passwordHash, sets failedLoginAttempts to 0 and lockedUntil
\* to null and deletes the sessions of that user and of no other; every
\* refresh token the user had before it is out of use from then on and is
\* answered INVALID_REFRESH_TOKEN by refresh.
C4_ResetRevokesSessions ==
  [][/\ RetiredForGood
     /\ \A r \in Slots : ResetApplied(r) /\ RetiredTokenRejected(r)]_vars

\* after a reset of a@x.com the refresh token of its registration has been
\* refused, and the session of b@x.com is still there
C4_Witness ==
  \E r \in Slots :
    /\ Answered(r, "refresh")
    /\ Code(r) = "INVALID_REFRESH_TOKEN"
    /\ req[r].in.refreshToken = RegistrationRefreshToken(1)
    /\ users["a@x.com"].passwordHash = hashPassword("0therPass")
    /\ \E t \in resetTokens : t.userId = "a@x.com" /\ t.used
    /\ {s \in sessions : s.userId = "a@x.com"} = {}
    /\ \E s \in sessions : s.userId = "b@x.com"

\* C5: once a reset-password has succeeded, every access token that the user
\* was given before it is rejected by the authorization check.
C5_ResetRevokesAccessTokens ==
  [][\A r \in Slots :
       (At(r, "resetPassword", "transaction") /\ Stepped(r) /\ AnswersSuccess(r))
         => \A a \in accessTokens :
              a.payload.userId = req[r].loc.resetToken.userId
                => requireAuth(a, now') = NoPayload]_vars

\* a request that looks up a used token is answered TOKEN_USED, expired or
\* not, and writes nothing
UsedTokenRejected(r, op, table) ==
  (/\ At(r, op, "findToken") /\ Stepped(r)
   /\ \E t \in table : t.token = req[r].in.token /\ t.used)
    => /\ AnswersError(r, 400, "TOKEN_USED")
       /\ UNCHANGED <<users, sessions, resetTokens, verificationTokens>>

\* a request that succeeds with a token leaves it used
SuccessUsesToken(r, op, tableAfter) ==
  (At(r, op, "transaction") /\ Stepped(r) /\ AnswersSuccess(r))
    => \E t \in tableAfter : t.token = req[r].in.token /\ t.used

\* a used token is used for good
UsedForGood(table, tableAfter) ==
  \A t \in table : t.used => \E x \in tableAfter : x.token = t.token /\ x.used

\* C6: a password-reset token and an email-verification token are single-use.
\* A reset-password (verify-email) that succeeds leaves its token used, a used
\* token stays used, and every request with a used token is answered
\* TOKEN_USED, also when the token has expired, and changes no record.
C6_TokenSingleUse ==
  [][/\ UsedForGood(resetTokens, resetTokens')
     /\ UsedForGood(verificationTokens, verificationTokens')
     /\ \A r \in Slots :
          /\ UsedTokenRejected(r, "resetPassword", resetTokens)
          /\ UsedTokenRejected(r, "verifyEmail", verificationTokens)
          /\ SuccessUsesToken(r, "resetPassword", resetTokens')
          /\ SuccessUsesToken(r, "verifyEmail", verificationTokens')]_vars

\* the only reset token of a user has changed the password, has expired since,
\* and a second reset with it has been answered TOKEN_USED
C6_Witness ==
  \E r \in Slots :
    /\ Answered(r, "resetPassword")
    /\ Code(r) = "TOKEN_USED"
    /\ \E t \in resetTokens :
         /\ t.token = req[r].in.token
         /\ t.expiresAt < now
         /\ users[t.userId].passwordHash = hashPassword("0therPass")
         /\ \A x \in resetTokens : x.userId = t.userId => x = t

\* two requests of the same kind with the same token have both succeeded
BothSucceeded(op) ==
  \E r1, r2 \in Slots :
    /\ r1 # r2
    /\ Answered(r1, op) /\ Answered(r2, op)
    /\ req[r1].in.token = req[r2].in.token
    /\ req[r1].resp.success /\ req[r2].resp.success

\* C7: of the reset-password requests that carry the same token at most one
\* succeeds, in every interleaving, and so for the verify-email requests.
C7_TokenAtMostOnce == ~BothSucceeded("resetPassword") /\ ~BothSucceeded("verifyEmail")

\* C8: every wrong-password login that is answered INVALID_CREDENTIALS raises
\* the stored failedLoginAttempts by one, in every interleaving, so that no
\* failure is lost.
C8_NoLostFailure ==
  [][\A r \in Slots :
       (At(r, "login", "updateFailed") /\ Stepped(r))
         => users'[req[r].in.email].failedLoginAttempts =
              users[req[r].in.email].failedLoginAttempts + 1]_vars

\* the answer of a successful login comes with the counter at 0, the lock
\* cleared and one more session, which holds the token of the answer
LoginSucceeded(r) ==
  (At(r, "login", "createSession") /\ Stepped(r))
    => LET e == req[r].in.email
       IN /\ AnswersSuccess(r)
          /\ req'[r].resp.status = 200
          /\ users'[e].failedLoginAttempts = 0
          /\ users'[e].lockedUntil = NullDate
          /\ sessions \subseteq sessions'
          /\ Cardinality(sessions' \ sessions) = 1
          /\ \A s \in sessions' \ sessions :
               /\ s.userId = e
               /\ s.refreshToken = req'[r].resp.data.refreshToken
               /\ s.refreshToken \notin SessionTokens(sessions)

\* C9: after a successful login failedLoginAttempts is 0 and lockedUntil is
\* null, there is exactly one new session of that user, which holds the
\* refresh token of the answer, and the sessions that existed are unchanged.
C9_LoginSuccessResets == [][\A r \in Slots : LoginSucceeded(r)]_vars

\* a login has been answered with success and the session of its refresh
\* token is in the store
C9_Witness ==
  \E r \in Slots :
    /\ Answered(r, "login")
    /\ req[r].resp.success
    /\ users[req[r].in.email].failedLoginAttempts = 0
    /\ users[req[r].in.email].lockedUntil = NullDate
    /\ \E s \in sessions : s.refreshToken = req[r].resp.data.refreshToken

\* C10: every login that is answered INVALID_CREDENTIALS gets the answer of an
\* unknown email, field for field, whether the email is registered or not.
C10_LoginAntiEnumeration ==
  \A r \in Slots :
    (Answered(r, "login") /\ Code(r) = "INVALID_CREDENTIALS")
      => req[r].resp = UnknownEmailResponse

\* C11: every forgot-password request is answered 200 with the same success
\* body, whether its email is registered or not, in every state of the store.
C11_ForgotPasswordUniform ==
  \A r \in Slots :
    Answered(r, "forgotPassword")
      => req[r].resp =
           [status |-> 200, success |-> TRUE,
            data |-> [message |->
                        <<"If the email exists, a password reset link has been sent">>]]

\* a forgot-password for an unregistered email has been answered after one
\* for the registered user had issued a reset token
C11_Witness ==
  \E r \in Slots :
    /\ Answered(r, "forgotPassword")
    /\ req[r].in.email \notin DOMAIN users
    /\ req[r].resp.success
    /\ \E t \in resetTokens : t.userId \in DOMAIN users

\* C12: every user has at most one reset token that is unused and unexpired,
\* in every reachable state, concurrent forgot-password requests included.
C12_AtMostOneActiveResetToken ==
  \A u \in DOMAIN users :
    Cardinality({t \in resetTokens :
                   t.userId = u /\ ~t.used /\ ~(t.expiresAt < now)}) <= 1

\* the handler in slot r, stopped at pc, is answered 500 in this step
FailsAt(r, op, pc) ==
  At(r, op, pc) /\ req'[r].pc = "done" /\ req'[r].resp = InternalError

\* a registration that fails after its user was created leaves no user and no
\* session of its email (the email was free when the request began)
RegisterRolledBack(r) ==
  (FailsAt(r, "register", "createSession") \/ FailsAt(r, "register", "createVerificationToken"))
    => /\ req[r].in.email \notin DOMAIN users'
       /\ \A x \in sessions' : x.userId # req[r].in.email

\* a login that fails after its counter reset leaves the counter and the lock
\* as the request found them
LoginRolledBack(r) ==
  FailsAt(r, "login", "createSession")
    => /\ users'[req[r].in.email].failedLoginAttempts = req[r].loc.user.failedLoginAttempts
       /\ users'[req[r].in.email].lockedUntil = req[r].loc.user.lockedUntil

\* C13: a flow that writes more than one record is all-or-nothing.  When a
\* write of a registration or of a login fails, the writes the request made
\* before it are undone (the cases of the claim that the request itself
\* records: the user and session of a registration, the counter of a login).
C13_AllOrNothing ==
  [][\A r \in Slots : RegisterRolledBack(r) /\ LoginRolledBack(r)]_vars

\* a request that looks up an unused token whose expiresAt is in the past is
\* answered TOKEN_EXPIRED and writes nothing
ExpiredTokenRejected(r, op, table) ==
  (/\ At(r, op, "findToken") /\ Stepped(r)
   /\ \E t \in table : t.token = req[r].in.token /\ ~t.used /\ t.expiresAt < now)
    => /\ AnswersError(r, 400, "TOKEN_EXPIRED")
       /\ UNCHANGED <<users, sessions, resetTokens, verificationTokens>>

\* a refresh that looks up a session whose expiresAt is in the past makes no
\* new token and goes on to delete the session
ExpiredSessionFound(r) ==
  (/\ At(r, "refresh", "findSession") /\ Stepped(r)
   /\ \E x \in sessions : x.refreshToken = req[r].in.refreshToken /\ x.expiresAt < now)
    => /\ req'[r].pc = "deleteExpired"
       /\ UNCHANGED <<sessions, nextId, accessTokens>>

\* the refresh of an expired session deletes that session and no other, is
\* answered REFRESH_TOKEN_EXPIRED and hands out no token
ExpiredSessionDeleted(r) ==
  (At(r, "refresh", "deleteExpired") /\ Stepped(r))
    => /\ AnswersError(r, 401, "REFRESH_TOKEN_EXPIRED")
       /\ DOMAIN req'[r].resp = {"status", "success", "error"}
       /\ sessions' = sessions \ {req[r].loc.session}
       /\ req[r].loc.session \in sessions
       /\ UNCHANGED <<nextId, accessTokens>>

\* C14: an unused reset or verification token whose expiresAt is in the past
\* is answered TOKEN_EXPIRED and changes nothing; a refresh token whose
\* session has expired is answered REFRESH_TOKEN_EXPIRED, no new token is
\* issued and that session is deleted.
C14_ExpiredTokensRejected ==
  [][\A r \in Slots :
       /\ ExpiredTokenRejected(r, "resetPassword", resetTokens)
       /\ ExpiredTokenRejected(r, "verifyEmail", verificationTokens)
       /\ ExpiredSessionFound(r)
       /\ ExpiredSessionDeleted(r)]_vars

\* the only reset token, never used, has been answered TOKEN_EXPIRED after
\* the refresh of the expired session had deleted it
C14_Witness ==
  \E r \in Slots :
    /\ Answered(r, "resetPassword")
    /\ Code(r) = "TOKEN_EXPIRED"
    /\ Cardinality(resetTokens) = 1
    /\ \A t \in resetTokens : ~t.used /\ t.expiresAt < now
    /\ sessions = {}
    /\ RegistrationRefreshToken(1) \in retired

\* a registration whose email is registered is answered EMAIL_EXISTS and
\* writes nothing
RegistrationRejected(r) ==
  (At(r, "register", "findUser") /\ Stepped(r) /\ req[r].in.email \in DOMAIN users)
    => /\ AnswersError(r, 400, "EMAIL_EXISTS")
       /\ UNCHANGED <<users, sessions, resetTokens, verificationTokens>>

\* the answer of a successful registration comes with a user of its email
\* that is a VIEWER with emailVerified null and has exactly one session,
\* which holds the refresh token of the answer, and exactly one verification
\* token, which is unused
RegistrationCompleted(r) ==
  (At(r, "register", "createVerificationToken") /\ Stepped(r))
    => LET e == req[r].in.email
       IN /\ AnswersSuccess(r)
          /\ req'[r].resp.status = 201
          /\ e \in DOMAIN users'
          /\ users'[e].role = "VIEWER"
          /\ users'[e].emailVerified = NullDate
          /\ users'[e].passwordHash = hashPassword(req[r].in.password)
          /\ Cardinality({x \in sessions' : x.userId = e}) = 1
          /\ \A x \in sessions' :
               x.userId = e => x.refreshToken = req'[r].resp.data.refreshToken
          /\ Cardinality({t \in verificationTokens' : t.userId = e}) = 1
          /\ \A t \in verificationTokens' : t.userId = e => ~t.used

\* a user is created by a registration of an email that no user has, and the
\* users that exist are never replaced or removed by it
UsersCreatedByRegistration ==
  DOMAIN users' # DOMAIN users
    => \E r \in Slots :
         /\ At(r, "register", "createUser")
         /\ req[r].in.email \notin DOMAIN users
         /\ DOMAIN users' = DOMAIN users \cup {req[r].in.email}
         /\ \A e \in DOMAIN users : users'[e] = users[e]

\* C15: a successful registration creates a VIEWER with emailVerified null,
\* exactly one session and exactly one unused verification token of that
\* user; a registration of a registered email is answered EMAIL_EXISTS and
\* creates nothing, so that an email has one user at most.
C15_RegistrationCreatesViewer ==
  [][/\ UsersCreatedByRegistration
     /\ \A r \in Slots : RegistrationRejected(r) /\ RegistrationCompleted(r)]_vars

\* b@x.com has registered with success while a@x.com, registered before, is
\* as it was
C15_Witness ==
  \E r \in Slots :
    /\ Answered(r, "register")
    /\ req[r].resp.success
    /\ req[r].in.email = "b@x.com"
    /\ DOMAIN users = {"a@x.com", "b@x.com"}
    /\ users["b@x.com"].role = "VIEWER"
    /\ Cardinality(sessions) = 2

\* the deleteMany of logout-all deletes the sessions of the caller, all of
\* them and no other, and takes their refresh tokens out of use
LogoutAllApplied(r) ==
  (At(r, "logoutAll", "deleteSessions") /\ Stepped(r))
    => LET u == req[r].in.user.userId
       IN /\ AnswersSuccess(r)
          /\ sessions' = {x \in sessions : x.userId # u}
          /\ {x.refreshToken : x \in {y \in sessions : y.userId = u}} \subseteq retired'
          /\ UNCHANGED users

\* C16: logout-all deletes every session of the authenticated user and no
\* session of another user; the refresh tokens of the deleted sessions are
\* out of use from then on and a refresh with one of them is answered
\* INVALID_REFRESH_TOKEN.
C16_LogoutAllRevokesOwnSessions ==
  [][/\ RetiredForGood
     /\ \A r \in Slots : LogoutAllApplied(r) /\ RetiredTokenRejected(r)]_vars

\* after a second login and a logout-all of a@x.com, before any session could
\* expire, the refresh token of its registration has been refused and the
\* session of b@x.com is still there
C16_Witness ==
  \E r \in Slots :
    /\ Answered(r, "refresh")
    /\ Code(r) = "INVALID_REFRESH_TOKEN"
    /\ req[r].in.refreshToken = RegistrationRefreshToken(1)
    /\ now = 0
    /\ Cardinality(retired) = 2
    /\ {x \in sessions : x.userId = "a@x.com"} = {}
    /\ \E x \in sessions : x.userId = "b@x.com"

\* the sessions that a logout of this caller with this refresh token names
LogoutMatches(S, user, refreshToken) ==
  {x \in S : x.userId = user.userId /\ x.refreshToken = refreshToken}

\* the deleteMany of a logout deletes the sessions it names, one at most,
\* and no other, is answered success also when it names none, and leaves
\* nothing for a repetition to delete
LogoutApplied(r) ==
  (At(r, "logout", "deleteSession") /\ Stepped(r))
    => LET named == LogoutMatches(sessions, req[r].in.user, req[r].in.refreshToken)
       IN /\ AnswersSuccess(r)
          /\ req'[r].resp.status = 200
          /\ sessions' = sessions \ named
          /\ Cardinality(named) <= 1
          /\ LogoutMatches(sessions', req[r].in.user, req[r].in.refreshToken) = {}
          /\ UNCHANGED users

\* a logout of an authenticated caller without a refresh token is answered
\* success and deletes nothing
LogoutWithoutToken(r) ==
  (/\ req'[r] # req[r] /\ req'[r].op = "logout"
   /\ req'[r].in.user # NoPayload
   /\ req'[r].in.refreshToken = NoRefreshToken)
    => /\ AnswersSuccess(r)
       /\ UNCHANGED <<users, sessions>>

\* C17: logout deletes the session whose userId is the caller and whose
\* refresh token is the one supplied, and nothing else; a refresh token that
\* is missing, unknown, no longer in use or held by a session of another user
\* deletes nothing and is answered success; after a logout a repetition of
\* it finds nothing to delete.
C17_LogoutIdempotent ==
  [][\A r \in Slots : LogoutApplied(r) /\ LogoutWithoutToken(r)]_vars

\* a@x.com has logged out with the refresh token of b@x.com, with success,
\* and both sessions are still there
C17_Witness ==
  \E r \in Slots :
    /\ Answered(r, "logout")
    /\ req[r].resp.success
    /\ req[r].in.user # NoPayload
    /\ req[r].in.user.userId = "a@x.com"
    /\ req[r].in.refreshToken = RegistrationRefreshToken(2)
    /\ \E x \in sessions : x.userId = "b@x.com" /\ x.refreshToken = RegistrationRefreshToken(2)
    /\ \E x \in sessions : x.userId = "a@x.com"

\* a revocation whose id is of no session, or of a session of another user,
\* is answered 404 SESSION_NOT_FOUND; one whose id is of a session of the
\* caller goes on to delete; the lookup deletes nothing
ForeignSessionNotFound(r) ==
  (At(r, "revokeSession", "findSession") /\ Stepped(r))
    => /\ UNCHANGED <<users, sessions>>
       /\ IF \E x \in sessions : x.id = req[r].in.id /\ x.userId = req[r].in.user.userId
            THEN req'[r].pc = "delete"
            ELSE AnswersError(r, 404, "SESSION_NOT_FOUND")

\* the delete of a revocation deletes the session of that id, which is one of
\* the caller, and no other
OwnSessionDeleted(r) ==
  (At(r, "revokeSession", "delete") /\ Stepped(r))
    => /\ AnswersSuccess(r)
       /\ sessions' = {x \in sessions : x.id # req[r].in.id}
       /\ Cardinality(sessions \ sessions') = 1
       /\ \A x \in sessions \ sessions' : x.userId = req[r].in.user.userId

\* C18: DELETE /auth/sessions/:id revokes only sessions of the caller.  An id
\* of no session or of a session of another user is answered 404
\* SESSION_NOT_FOUND and deletes nothing; an id of a session of the caller
\* deletes exactly that session.
C18_DeleteOwnSessionOnly ==
  [][\A r \in Slots : ForeignSessionNotFound(r) /\ OwnSessionDeleted(r)]_vars

\* a@x.com has asked to revoke the session of b@x.com, has been answered
\* SESSION_NOT_FOUND, and the session is still there
C18_Witness ==
  \E r \in Slots :
    /\ Answered(r, "revokeSession")
    /\ Code(r) = "SESSION_NOT_FOUND"
    /\ req[r].in.user.userId = "a@x.com"
    /\ \E x \in sessions : x.id = req[r].in.id /\ x.userId = "b@x.com"

\* the transaction of a verification marks its token used and sets
\* emailVerified of the owner of the token to the current time, in one step,
\* and writes nothing else
VerifyEmailApplied(r) ==
  (At(r, "verifyEmail", "transaction") /\ Stepped(r))
    => LET u == req[r].loc.verificationToken.userId
       IN /\ AnswersSuccess(r)
          /\ verificationTokens' =
               {IF t.token = req[r].in.token THEN [t EXCEPT !.used = TRUE] ELSE t
                  : t \in verificationTokens}
          /\ \E t \in verificationTokens' : t.token = req[r].in.token /\ t.used
          /\ users' = [users EXCEPT ![u].emailVerified = now]
          /\ UNCHANGED <<sessions, resetTokens>>

\* the lookup of a verification writes nothing; it goes on to the transaction
\* when the token exists, is unused and has not expired, and is answered
\* INVALID_TOKEN, TOKEN_USED or TOKEN_EXPIRED otherwise
VerifyEmailChecked(r) ==
  (At(r, "verifyEmail", "findToken") /\ Stepped(r))
    => /\ UNCHANGED <<users, verificationTokens, sessions>>
       /\ IF \E t \in verificationTokens :
                t.token = req[r].in.token /\ ~t.used /\ ~(t.expiresAt < now)
            THEN req'[r].pc = "transaction"
            ELSE /\ req'[r].pc = "done"
                 /\ ~req'[r].resp.success
                 /\ req'[r].resp.status = 400
                 /\ req'[r].resp.error.code \in {"INVALID_TOKEN", "TOKEN_USED", "TOKEN_EXPIRED"}

\* a verification token is used exactly when its owner is verified
UsedWithVerified ==
  \A t \in verificationTokens' :
    t.used <=> users'[t.userId].emailVerified # NullDate

\* C19: a verification with a token that exists, is unused and has not
\* expired marks the token used and sets emailVerified of its owner to the
\* current time in one step, never one without the other; a verification
\* answered INVALID_TOKEN, TOKEN_USED or TOKEN_EXPIRED leaves the token and
\* the user as they were.
C19_VerifyEmailAtomic ==
  [][/\ UsedWithVerified
     /\ \A r \in Slots : VerifyEmailApplied(r) /\ VerifyEmailChecked(r)]_vars

\* a@x.com has verified its email with the token of its registration, and
\* b@x.com, whose token is unused, is not verified
C19_Witness ==
  \E r \in Slots :
    /\ Answered(r, "verifyEmail")
    /\ req[r].resp.success
    /\ req[r].in.token = RegistrationVerificationToken(1)
    /\ users["a@x.com"].emailVerified # NullDate
    /\ users["b@x.com"].emailVerified = NullDate
    /\ \E t \in verificationTokens : t.userId = "b@x.com" /\ ~t.used

\* the lookup of a change of password writes nothing; with a wrong current
\* password it is answered INVALID_PASSWORD, with the right one it goes on
ChangePasswordChecked(r) ==
  (At(r, "changePassword", "findUser") /\ Stepped(r))
    => /\ UNCHANGED <<users, sessions, retired>>
       /\ IF verifyPassword(req[r].in.currentPassword,
                            users[req[r].in.user.userId].passwordHash)
            THEN req'[r].pc = "update"
            ELSE AnswersError(r, 400, "INVALID_PASSWORD")

\* the update of a change of password replaces passwordHash of the caller
\* and nothing else: the counter, the lock, the other users and the sessions
\* are as they were, and no refresh token goes out of use
ChangePasswordApplied(r) ==
  (At(r, "changePassword", "update") /\ Stepped(r))
    => /\ AnswersSuccess(r)
       /\ users' = [users EXCEPT ![req[r].in.user.userId].passwordHash =
                                   hashPassword(req[r].in.newPassword)]
       /\ UNCHANGED <<sessions, retired>>

\* C20: change-password with a wrong current password is answered
\* INVALID_PASSWORD and changes nothing; with the right one it replaces
\* passwordHash only, the sessions, failedLoginAttempts and lockedUntil of
\* the user stay, and a refresh token of an unexpired session is accepted by
\* refresh as before.
C20_ChangePasswordKeepsSessions ==
  [][\A r \in Slots :
       ChangePasswordChecked(r) /\ ChangePasswordApplied(r) /\ LiveTokenAccepted(r)]_vars

\* a@x.com has a changed password and a failed login counted, and the
\* refresh token of its registration has been accepted
C20_Witness ==
  \E r \in Slots :
    /\ Answered(r, "refresh")
    /\ req[r].resp.success
    /\ req[r].in.refreshToken = RegistrationRefreshToken(1)
    /\ users["a@x.com"].passwordHash = hashPassword("0therPass")
    /\ users["a@x.com"].failedLoginAttempts > 0

\* a login that finds a lockedUntil that the clock has reached is not answered
\* ACCOUNT_LOCKED: it goes on to the password, and the lookup writes nothing
ExpiredLockIgnored(r) ==
  (/\ At(r, "login", "findUser") /\ Stepped(r)
   /\ req[r].in.email \in DOMAIN users
   /\ users[req[r].in.email].lockedUntil # NullDate
   /\ now >= users[req[r].in.email].lockedUntil)
    => /\ req'[r].pc = "verifyPassword"
       /\ UNCHANGED <<users, sessions>>

\* a login whose password is the one of the row goes on to reset the counter,
\* and the reset writes 0 and null whatever the row held
RightPasswordResets(r) ==
  /\ (/\ At(r, "login", "verifyPassword") /\ Stepped(r)
      /\ verifyPassword(req[r].in.password, req[r].loc.user.passwordHash))
       => req'[r].pc = "resetAttempts"
  /\ (At(r, "login", "resetAttempts") /\ Stepped(r))
       => /\ req'[r].pc = "createSession"
          /\ users'[req[r].in.email].failedLoginAttempts = 0
          /\ users'[req[r].in.email].lockedUntil = NullDate

\* C21: once the clock has reached lockedUntil of a locked account, a login
\* is no longer answered ACCOUNT_LOCKED; with the right password it resets
\* failedLoginAttempts to 0 and lockedUntil to null and is answered with
\* success.
C21_LockExpires ==
  [][\A r \in Slots :
       ExpiredLockIgnored(r) /\ RightPasswordResets(r) /\ LoginSucceeded(r)]_vars

\* a login with the right password found the account locked until this very
\* instant with five failures counted, and has reset the counter and the lock
C21_Witness ==
  \E r \in Slots :
    /\ At(r, "login", "createSession")
    /\ req[r].loc.user.failedLoginAttempts = MAX_LOGIN_ATTEMPTS
    /\ req[r].loc.user.lockedUntil = now
    /\ users[req[r].in.email].failedLoginAttempts = 0
    /\ users[req[r].in.email].lockedUntil = NullDate

\* the larger of 0 and MAX_LOGIN_ATTEMPTS - n
RemainingAfter(n) == IF MAX_LOGIN_ATTEMPTS - n > 0 THEN MAX_LOGIN_ATTEMPTS - n ELSE 0

\* C23: the answer to a wrong password carries remainingAttempts =
\* max(0, 5 - n), n being failedLoginAttempts as stored by that attempt; the
\* attempt that brings the counter from 4 to 5 reports 0, and the value is
\* never negative.
C23_RemainingAttempts ==
  [][\A r \in Slots :
       (At(r, "login", "updateFailed") /\ Stepped(r))
         => LET e == req[r].in.email
                remaining == req'[r].resp.error.remainingAttempts
            IN /\ AnswersError(r, 401, "INVALID_CREDENTIALS")
               /\ remaining = RemainingAfter(users'[e].failedLoginAttempts)
               /\ remaining >= 0
               /\ users[e].failedLoginAttempts = MAX_LOGIN_ATTEMPTS - 1
                    => /\ users'[e].failedLoginAttempts = MAX_LOGIN_ATTEMPTS
                       /\ remaining = 0]_vars

\* a sixth wrong password, given after the lock had expired, has been
\* answered with remainingAttempts 0
C23_Witness ==
  \E r \in Slots :
    /\ Answered(r, "login")
    /\ Code(r) = "INVALID_CREDENTIALS"
    /\ req[r].in.email \in DOMAIN users
    /\ users[req[r].in.email].failedLoginAttempts = MAX_LOGIN_ATTEMPTS + 1
    /\ req[r].resp.error.remainingAttempts = 0

\* failedLoginAttempts of a user goes down in one way only: to 0, by the
\* counter reset of a login of that user or by the transaction of a reset of
\* its password; a step of the clock writes no user
CounterResetOnlyBySuccess ==
  /\ now' # now => users' = users
  /\ \A e \in DOMAIN users :
       users'[e].failedLoginAttempts < users[e].failedLoginAttempts
         => /\ users'[e].failedLoginAttempts = 0
            /\ \E r \in Slots :
                 /\ Stepped(r)
                 /\ \/ At(r, "login", "resetAttempts") /\ req[r].in.email = e
                    \/ /\ At(r, "resetPassword", "transaction")
                       /\ req[r].loc.resetToken.userId = e

\* a wrong password given to a row whose lock has expired finds the counter
\* at MAX_LOGIN_ATTEMPTS or more and decides a new lock, 15 minutes from then
RelockDecided(r) ==
  (/\ At(r, "login", "verifyPassword") /\ Stepped(r)
   /\ ~verifyPassword(req[r].in.password, req[r].loc.user.passwordHash)
   /\ req[r].loc.user.lockedUntil # NullDate)
    => /\ req[r].loc.user.failedLoginAttempts >= MAX_LOGIN_ATTEMPTS
       /\ req'[r].pc = "updateFailed"
       /\ "lockedUntil" \in DOMAIN req'[r].loc.updateData
       /\ req'[r].loc.updateData.lockedUntil = now + LOCKOUT_DURATION_MINUTES

\* the update that follows stores that lock and is answered remainingAttempts 0
RelockStored(r) ==
  (/\ At(r, "login", "updateFailed") /\ Stepped(r)
   /\ req[r].loc.user.lockedUntil # NullDate)
    => /\ "lockedUntil" \in DOMAIN req[r].loc.updateData
       /\ users'[req[r].in.email].lockedUntil = req[r].loc.updateData.lockedUntil
       /\ users'[req[r].in.email].lockedUntil > req[r].loc.user.lockedUntil
       /\ users'[req[r].in.email].failedLoginAttempts > MAX_LOGIN_ATTEMPTS
       /\ req'[r].resp.error.remainingAttempts = 0

\* C27: failedLoginAttempts is reset by a successful login or a successful
\* password reset and by nothing else, the passing of time included; the
\* first wrong password after a lock has expired finds the counter at 5 or
\* more, locks the account again for 15 minutes and is answered
\* remainingAttempts 0.
C27_CounterOutlivesLock ==
  [][/\ CounterResetOnlyBySuccess
     /\ \A r \in Slots : RelockDecided(r) /\ RelockStored(r)]_vars

\* one wrong password after the first lock had expired has locked the account
\* again, until 15 minutes after the end of the first lock
C27_Witness ==
  \E r \in Slots :
    /\ Answered(r, "login")
    /\ Code(r) = "INVALID_CREDENTIALS"
    /\ req[r].in.email \in DOMAIN users
    /\ now = LOCKOUT_DURATION_MINUTES
    /\ users[req[r].in.email].failedLoginAttempts = MAX_LOGIN_ATTEMPTS + 1
    /\ users[req[r].in.email].lockedUntil = now + LOCKOUT_DURATION_MINUTES

\* C26: in every reachable state, under any interleaving of login requests,
\* a user whose lockedUntil is not null has failedLoginAttempts >= 5.
C26_LockedImpliesMaxAttempts ==
  \A e \in DOMAIN users :
    users[e].lockedUntil # NullDate
      => users[e].failedLoginAttempts >= MAX_LOGIN_ATTEMPTS

\* C25: a password reset leaves no session obtained with the old password.
\* When a reset-password of a user and a login that verified the password
\* the user had before that reset have both been answered with success, in
\* whatever order their steps ran, the user has no session.
C25_ResetLeavesNoOldSession ==
  \A r1, r2 \in Slots :
    (/\ Answered(r1, "login") /\ req[r1].resp.success
     /\ Answered(r2, "resetPassword") /\ req[r2].resp.success
     /\ \E t \in resetTokens : t.token = req[r2].in.token /\ t.userId = req[r1].in.email
     /\ req[r1].in.password # req[r2].in.password
     /\ users[req[r1].in.email].passwordHash = hashPassword(req[r2].in.password))
      => {s \in sessions : s.userId = req[r1].in.email} = {}

\* a role is written by the update of a role change and by nothing else, and
\* that request is one of a caller with the role ADMIN about another user
RoleWrittenByAdminOnly ==
  \A e \in DOMAIN users :
    users'[e].role # users[e].role
      => \E r \in Slots :
           /\ At(r, "updateRole", "update") /\ Stepped(r)
           /\ req[r].in.userId = e
           /\ req[r].in.user.role = "ADMIN"
           /\ req[r].in.user.userId # e

\* a role change of an authenticated caller that is not an ADMIN is answered
\* 403, one of an ADMIN about itself 400 INVALID_OPERATION; neither writes
RoleChangeRejected(r) ==
  (/\ req'[r] # req[r] /\ req'[r].op = "updateRole" /\ req[r].pc \in {"idle", "done"}
   /\ req'[r].in.user # NoPayload)
    => /\ UNCHANGED users
       /\ req'[r].in.user.role # "ADMIN" => AnswersError(r, 403, "FORBIDDEN")
       /\ (req'[r].in.user.role = "ADMIN" /\ req'[r].in.userId = req'[r].in.user.userId)
            => AnswersError(r, 400, "INVALID_OPERATION")
       /\ (req'[r].in.user.role = "ADMIN" /\ req'[r].in.userId # req'[r].in.user.userId)
            => req'[r].pc = "findUser"

\* the update of a role change sets the role of its target to the role asked
\* for and writes nothing else
RoleChangeApplied(r) ==
  /\ (At(r, "updateRole", "findUser") /\ Stepped(r))
       => /\ UNCHANGED users
          /\ req[r].in.userId \in DOMAIN users => req'[r].pc = "update"
  /\ (At(r, "updateRole", "update") /\ Stepped(r))
       => /\ AnswersSuccess(r)
          /\ users' = [users EXCEPT ![req[r].in.userId].role = req[r].in.role]
          /\ UNCHANGED sessions

\* C22: the role update is for admins only and not for oneself.  A caller
\* whose attached role is not ADMIN is rejected and changes nothing; an ADMIN
\* that names its own user id is answered INVALID_OPERATION and keeps its
\* role; an ADMIN that names another existing user sets the role of exactly
\* that user to the role asked for.
C22_RoleUpdateAdminOnly ==
  [][/\ RoleWrittenByAdminOnly
     /\ \A r \in Slots : RoleChangeRejected(r) /\ RoleChangeApplied(r)]_vars

\* the admin a@x.com has made b@x.com an editor, has then been refused a
\* change of its own role, and is still an admin
C22_Witness ==
  \E r \in Slots :
    /\ Answered(r, "updateRole")
    /\ Code(r) = "INVALID_OPERATION"
    /\ req[r].in.user.userId = "a@x.com"
    /\ req[r].in.role = "VIEWER"
    /\ users["a@x.com"].role = "ADMIN"
    /\ users["b@x.com"].role = "EDITOR"

\* the gate of the role update decides on the role in the token of the
\* caller, whatever role the store holds for that user
RoleGateUsesToken(r) ==
  (/\ req'[r] # req[r] /\ req'[r].op = "updateRole" /\ req[r].pc \in {"idle", "done"}
   /\ req'[r].in.user # NoPayload)
    => /\ req'[r].in.user \in {a.payload : a \in {x \in accessTokens : now < x.exp}}
       /\ AnswersError(r, 403, "FORBIDDEN") <=> req'[r].in.user.role # "ADMIN"

\* a token that was handed out stays as it is: until it expires it verifies
\* to the payload it was issued with, whatever is written to the store
TokensKeepRole ==
  \A a \in accessTokens :
    /\ a \in accessTokens'
    /\ now' < a.exp => requireAuth(a, now') = a.payload

\* a token that is handed out carries the role the store holds for its user
NewTokensCarryStoredRole ==
  \A a \in accessTokens' \ accessTokens :
    a.payload.role = users'[a.payload.userId].role

\* C28: role checks use the role in the access token, not the stored role.
\* After a change of role the tokens issued before it keep passing or failing
\* the role gate with the old role until they expire, and the new role is
\* in the tokens that login and refresh issue afterwards, which carry the
\* stored role.
C28_RoleFromToken ==
  [][/\ TokensKeepRole
     /\ NewTokensCarryStoredRole
     /\ \A r \in Slots : RoleGateUsesToken(r)]_vars

\* b@x.com has been made an admin and has been issued a token that says so,
\* and its role change made with the token of its registration has been
\* answered FORBIDDEN before that token expired
C28_Witness ==
  \E r \in Slots :
    /\ Answered(r, "updateRole")
    /\ Code(r) = "FORBIDDEN"
    /\ req[r].in.user = [userId |-> "b@x.com", role |-> "VIEWER"]
    /\ users["b@x.com"].role = "ADMIN"
    /\ \E a \in accessTokens : a.payload = [userId |-> "b@x.com", role |-> "ADMIN"]
    /\ now < ACCESS_TOKEN_EXPIRES_IN

\* what the table of roles allows: an ADMIN edits every article, an EDITOR
\* its own, a VIEWER none
TableAllowsEdit(article, user) ==
  \/ user.role = "ADMIN"
  \/ user.role = "EDITOR" /\ article.authorId = user.userId

\* a creation by a VIEWER is answered 403; an article comes into being by
\* the create of a caller that is not a VIEWER, with that caller as author
CreateGate(r) ==
  /\ (/\ req'[r] # req[r] /\ req'[r].op = "createArticle" /\ req[r].pc \in {"idle", "done"}
      /\ req'[r].in.user # NoPayload)
       => IF req'[r].in.user.role = "VIEWER"
            THEN AnswersError(r, 403, "FORBIDDEN") /\ UNCHANGED articles
            ELSE req'[r].pc = "slug"
  /\ (At(r, "createArticle", "create") /\ Stepped(r) /\ articles' # articles)
       => /\ req[r].in.user.role # "VIEWER"
          /\ \A x \in articles' \ articles : x.authorId = req[r].in.user.userId
          /\ articles \subseteq articles'

\* the lookup of an update lets the request go on when the table allows the
\* edit and answers 403 FORBIDDEN otherwise; that of a delete lets an ADMIN
\* go on and answers 403 FORBIDDEN otherwise; neither writes
EditGate(r) ==
  /\ (/\ At(r, "updateArticle", "findArticle") /\ Stepped(r)
      /\ ArticleById(req[r].in.id) # {})
       => /\ UNCHANGED articles
          /\ IF \E x \in ArticleById(req[r].in.id) : TableAllowsEdit(x, req[r].in.user)
               THEN req'[r].pc = "update"
               ELSE AnswersError(r, 403, "FORBIDDEN")
  /\ (/\ At(r, "deleteArticle", "findArticle") /\ Stepped(r)
      /\ ArticleById(req[r].in.id) # {})
       => /\ UNCHANGED articles
          /\ IF req[r].in.user.role = "ADMIN"
               THEN req'[r].pc = "delete"
               ELSE AnswersError(r, 403, "FORBIDDEN")

\* an article is changed by an update of a caller the table allows to edit
\* it, removed by a delete of an ADMIN, and by nothing else
ArticleWrittenByPermitted ==
  \A x \in articles \ articles' :
    \E r \in Slots :
      /\ Stepped(r) /\ req[r].in.id = x.id
      /\ \/ /\ At(r, "updateArticle", "update")
            /\ TableAllowsEdit(x, req[r].in.user)
            /\ \E y \in articles' : y = [x EXCEPT !.content = req[r].in.content]
         \/ /\ At(r, "deleteArticle", "delete")
            /\ req[r].in.user.role = "ADMIN"
            /\ ArticleById(x.id)' = {}

\* C24: the article routes follow the table of roles.  A caller with the
\* role VIEWER creates and updates no article, an EDITOR updates only the
\* articles it authored, an ADMIN updates any, only an ADMIN deletes; a
\* request of a caller the table does not allow is answered 403 FORBIDDEN
\* and leaves the article as it was.
C24_ArticleRBAC ==
  [][/\ ArticleWrittenByPermitted
     /\ \A r \in Slots : CreateGate(r) /\ EditGate(r)]_vars

\* the author of an article, with a token that says VIEWER, has been refused
\* its update, and the article has the content it was created with
C24_Witness ==
  \E r \in Slots :
    /\ Answered(r, "updateArticle")
    /\ Code(r) = "FORBIDDEN"
    /\ req[r].in.user.role = "VIEWER"
    /\ req[r].in.content = "v2"
    /\ \E x \in articles :
         x.id = req[r].in.id /\ x.authorId = req[r].in.user.userId /\ x.content = "v1"

\* C29: the web client does not discard a live session because of its own
\* concurrency.  When the calls of fetchUser that ran together with the same
\* stored refresh token have all ended with their last answer received, the
\* client is not left without its stored tokens while the server holds a
\* session of its user that has not expired.
C29_ClientKeepsLiveSession ==
  (/\ \A p \in Slots : client.proc[p].pc = "done"
   /\ client.accessToken = Null
   /\ client.refreshToken = NoRefreshToken)
    => ~\E x \in sessions : x.userId = "a@x.com" /\ ~(x.expiresAt < now)

\* the call p of fetchUser ends in this step
FetchUserEnds(p) ==
  client.proc[p].pc \in Awaiting /\ client'.proc[p].pc = "done"

\* a call of fetchUser that found a stored access token and ends with no user
\* has removed both stored tokens
EndsWithoutUserRemovesTokens ==
  \A p \in Slots :
    (FetchUserEnds(p) /\ client'.user = Null)
      => /\ client'.accessToken = Null
         /\ client'.refreshToken = NoRefreshToken

\* C30: every call of fetchUser that found a stored access token and made its
\* request eventually ends with isLoading set to false, whatever becomes of its
\* requests (an answer, an error answer, a request that throws); and a call
\* that ends with no user has removed both stored tokens.
C30_FetchUserSettles ==
  /\ \A p \in Slots :
       (client.proc[p].pc \in Awaiting)
         ~> (client.proc[p].pc = "done" /\ ~client.isLoading)
  /\ [][EndsWithoutUserRemovesTokens]_vars

====
